---- MODULE Spec2Model ----
(***************************************************************************)
(* Model of vix::orm's ConnectionPool, PooledConn, Transaction and         *)
(* FileMigrationsRunner.                                                   *)
(*                                                                         *)
(* Threads call ConnectionPool::acquire / release / warmup, construct and  *)
(* destroy PooledConn guards, and drive Transaction objects.  The pool     *)
(* mutex m_ is modelled by making each critical section one action; the    *)
(* only critical section that spans several steps is warmup's loop, which  *)
(* calls the factory while it holds m_, so m_ records its holder.          *)
(*                                                                         *)
(* One FileMigrationsRunner runs applyAll() and rollback(steps) on one     *)
(* connection; each call it makes on the connection inside a try block is  *)
(* one action, which succeeds or throws.  The database behind the          *)
(* connection is transactional: what a transaction wrote becomes durable   *)
(* at commit() and is dropped otherwise.                                   *)
(***************************************************************************)
EXTENDS Integers, Sequences, FiniteSets

\* ---------------------------------------------------------------- bounds
NumThreads == 2      \* threads using the pool
MaxMax == 2          \* largest cfg.max drawn by Init
MaxTotal == 3        \* warmup() is not started when it would take total_ above this
MaxHist == 3         \* calls kept in hist
MaxTxCalls == 2      \* commit()/rollback() calls made on the Transactions alive at one time
NumIds == 2          \* migration ids that can appear in the migrations directory
MaxStmts == 2        \* statements in the longest migration script
MaxSteps == 2        \* largest steps argument passed to rollback()
MaxLen == 4          \* characters in the longest text given to splitStatements
MaxCalls == 3        \* commit()/rollback() calls made on one UnitOfWork
MaxBytes == 3        \* bytes in the longest of the short inputs of sha256_hex

Threads == 1..NumThreads
NoThread == 0        \* m_ is not held
Null == 0            \* the null ConnectionPtr

VARIABLES
  cfg,          \* PoolConfig {min, max}
  idle,         \* idle_: queue of connections
  total,        \* total_
  m_,           \* holder of the pool mutex across warmup's loop, or NoThread
  nextId,       \* connections the factory has returned so far (ids 1..nextId)
  pc,           \* per thread: position inside a pool call
  mode,         \* per thread: who called the acquire() in progress
  held,         \* per thread: connections obtained by a direct acquire()
  gconn,        \* per thread: PooledConn::c_ of the thread's guard, or Null
  wi,           \* per thread: warmup's loop counter i
  w0,           \* per thread, history: <<idle.size(), total>> when warmup locked
  hist,         \* history: the caller and the calls it completed, kept while the pool has had
                \* one caller only and it has completed at most MaxHist calls
  txst,         \* per thread: its Transaction object: none, alive, destroyed or ctor_failed (its body ran, pooled_ not yet destroyed)
  active,       \* per thread: Transaction::active_
  api,          \* per thread, history: commit()/rollback() calls made on the Transaction
  txLog,        \* per thread, history: begin/commit/rollback calls the Transaction made on its connection
  dtorThrew     \* per thread, history: an exception left ~Transaction

poolVars == <<cfg, idle, total, m_, nextId>>
thrVars == <<pc, mode, held, gconn, wi, w0>>
txVars == <<txst, active, api, txLog, dtorThrew>>

\* FileMigrationsRunner, its migrations directory and the database behind conn_.
VARIABLES
  up,           \* directory: per id, the statements of <id>.up.sql, or NoFile
  down,         \* directory: per id, whether <id>.down.sql exists
  tableExists,  \* database: the tracking table has been created
  crec,         \* database, committed: per id, the checksum of its tracking record, or NoRec
  cup,          \* database, committed: per id, the effects of its up-script are present
  wrec,         \* the same two as seen on conn_, with the changes of its open transaction
  wup,
  inTx,         \* conn_ has an open transaction
  lastUp,       \* history: the recorded id whose up-script was committed most recently, or NoId
  rpc,          \* position inside applyAll() / rollback(steps)
  pairs,        \* the vector returned by scanPairs() for the call in progress
  ri,           \* applyAll: index into pairs; rollback: the loop counter i
  rk,           \* execScript: index of the next statement
  m,            \* the MigrationPair being applied or reverted
  steps,        \* rollback's argument
  op,           \* history: the call in progress or last completed, while the directory is unchanged
  res,          \* history: its outcome
  log,          \* history: the calls it made on conn_ inside its try blocks
  rec0,         \* history: crec when it started
  again,        \* history: it is an applyAll() that directly follows an applyAll() that returned
  trip          \* history: how far the sequence applyAll() on an empty table with down-scripts
                \* for all pairs (1), rollback(number of pairs) (2), rollback(1) (3) has got

dirVars == <<up, down>>
dbVars == <<tableExists, crec, cup, wrec, wup, inTx, lastUp>>
runVars == <<rpc, pairs, ri, rk, m, steps>>
obsVars == <<op, res, log, rec0, again, trip>>
migVars == <<dirVars, dbVars, runVars, obsVars>>

\* One evaluation of FileMigrationsRunner::splitStatements.
VARIABLES
  sql,          \* the argument
  si,           \* the loop index i, counted from 1
  cur,          \* the statement being collected
  in_sq,        \* inside a single-quoted literal
  in_dq,        \* inside a double-quoted literal
  out,          \* the statements found so far
  returned      \* splitStatements has returned out

splitVars == <<sql, si, cur, in_sq, in_dq, out, returned>>

\* A UnitOfWork and a Transaction, each on a pool of its own, driven by the
\* same calls with the same outcomes of the calls they make.
VARIABLES
  uow,          \* the UnitOfWork: its member tx_
  bare          \* the Transaction

uowVars == <<uow, bare>>

\* sha256_hex called twice on the same bytes.
VARIABLES
  data,         \* the bytes of the argument s
  hasher,       \* the Sha256 object h: bitlen_, state_, buffer_, buffer_len_
  shaPc,        \* where the call is
  ui,           \* update's loop index i, counted from 1
  msched,       \* transform's m, indexed from 1
  wv,           \* transform's a, b, c, d, e, f, g, h
  ti,           \* transform's loop index i, counted from 1
  ret,          \* the caller transform returns to
  total_bits,   \* digest's total_bits
  dig,          \* the array returned by digest()
  hexes         \* the strings returned by the calls made so far

shaVars == <<data, hasher, shaPc, ui, msched, wv, ti, ret, total_bits, dig, hexes>>

\* Two FileMigrationsRunner objects, each on a connection of its own, calling
\* applyAll() on the same database and the same directory.
VARIABLES
  runner,       \* per runner: where applyAll is, its pairs, its loop indices
  shared        \* the directory, the committed tracking records, and per
                \* runner its uncommitted inserts and the statements it ran

ccVars == <<runner, shared>>

\* The state outside the pool, its threads and the migrations runner.
fnVars == <<splitVars, uowVars, shaVars, ccVars>>

vars == <<poolVars, thrVars, txVars, hist, migVars, fnVars>>

Upd(f, t, v) == [f EXCEPT ![t] = v]

RECURSIVE SumLen(_, _)
SumLen(f, S) ==
  IF S = {} THEN 0
  ELSE LET t == CHOOSE x \in S : TRUE IN Len(f[t]) + SumLen(f, S \ {t})

Ids == 1..NumIds     \* migration ids; their order is the lexicographic order of the id strings
NoId == 0            \* the empty string returned by lastAppliedId() when the table is empty
NoRec == 0           \* no tracking record
NoFile == <<0>>      \* the file does not exist

\* A MigrationPair before any is selected.
NoPair == [id |-> NoId, up_checksum |-> NoRec, down |-> FALSE]

\* An empty migrations directory, a database without tracking table, and a
\* FileMigrationsRunner on which nothing has been called.
InitMigration ==
  /\ up = [i \in Ids |-> NoFile]
  /\ down = [i \in Ids |-> FALSE]
  /\ tableExists = FALSE
  /\ crec = [i \in Ids |-> NoRec]
  /\ cup = [i \in Ids |-> FALSE]
  /\ wrec = [i \in Ids |-> NoRec]
  /\ wup = [i \in Ids |-> FALSE]
  /\ inTx = FALSE
  /\ lastUp = NoId
  /\ rpc = "idle"
  /\ pairs = <<>>
  /\ ri = 0
  /\ rk = 0
  /\ m = NoPair
  /\ steps = 0
  /\ op = "none"
  /\ res = "none"
  /\ log = <<>>
  /\ rec0 = [i \in Ids |-> NoRec]
  /\ again = FALSE
  /\ trip = 0

\* The pool starts empty (total_ = 0), no thread is in a call.
InitPool ==
  /\ idle = <<>>
  /\ total = 0
  /\ m_ = NoThread
  /\ nextId = 0
  /\ pc = [t \in Threads |-> "idle"]
  /\ mode = [t \in Threads |-> "raw"]
  /\ held = [t \in Threads |-> {}]
  /\ gconn = [t \in Threads |-> Null]
  /\ wi = [t \in Threads |-> 0]
  /\ w0 = [t \in Threads |-> <<0, 0>>]
  /\ hist = [who |-> NoThread, calls |-> <<>>]
  /\ txst = [t \in Threads |-> "none"]
  /\ active = [t \in Threads |-> FALSE]
  /\ api = [t \in Threads |-> <<>>]
  /\ txLog = [t \in Threads |-> <<>>]
  /\ dtorThrew = [t \in Threads |-> FALSE]

\* No text is being split.
InitSplit ==
  /\ sql = <<>>
  /\ si = 1
  /\ cur = <<>>
  /\ in_sq = FALSE
  /\ in_dq = FALSE
  /\ out = <<>>
  /\ returned = TRUE

\* A Transaction object: whether it exists (st), its member active_, and the
\* calls made so far on its pool and on its connection, with their outcomes.
NoTransaction == [st |-> "none", active |-> FALSE, calls |-> <<>>]

\* Neither object has been constructed.
InitUow ==
  /\ uow = [tx_ |-> NoTransaction]
  /\ bare = NoTransaction

\* The members of an object on which no constructor body has run:
\* bitlen_ = 0, state_{}, buffer_{}, buffer_len_ = 0.
Fresh ==
  [bitlen_ |-> 0,
   state_ |-> [i \in 1..8 |-> [k \in 1..32 |-> 0]],
   buffer_ |-> [i \in 1..64 |-> 0],
   buffer_len_ |-> 0]

\* No Sha256 object exists.
NoHasher == [bitlen_ |-> 0, state_ |-> <<>>, buffer_ |-> <<>>, buffer_len_ |-> 0]

\* Nothing is being hashed.
InitSha ==
  /\ data = <<>>
  /\ hasher = NoHasher
  /\ shaPc = "done"
  /\ ui = 1
  /\ msched = <<>>
  /\ wv = <<>>
  /\ ti = 0
  /\ ret = "none"
  /\ total_bits = 0
  /\ dig = <<>>
  /\ hexes = <<>>

\* No second runner: nothing is shared.
InitRunners ==
  /\ runner = <<>>
  /\ shared = <<>>

\* Nothing is being split or hashed and neither object has been constructed.
InitFn == InitSplit /\ InitUow /\ InitSha /\ InitRunners

\* PoolConfig: min <= max, max >= 1.
Init ==
  /\ cfg \in {c \in [min : 0..MaxMax, max : 1..MaxMax] : c.min <= c.max}
  /\ InitPool
  /\ InitMigration
  /\ InitFn

\* hist once it is no longer kept.
NoHistory == [who |-> -1, calls |-> <<>>]

\* Thread t enters a pool call.
Enter(t) ==
  hist' = IF hist.who \in {NoThread, t} THEN [hist EXCEPT !.who = t] ELSE NoHistory

\* Thread t completes the pool call e.
Rec(t, e) ==
  hist' = IF hist.who \in {NoThread, t} /\ Len(hist.calls) < MaxHist
            THEN [who |-> t, calls |-> Append(hist.calls, e)]
            ELSE NoHistory

\* Threads blocked inside cv_.wait.
Waiters == {t \in Threads : pc[t] = "wait"}

\* A thread may enter acquire(): it is in no pool call, m_ can be locked, and
\* the object the call is for (md: a direct call "raw", a PooledConn "guard",
\* a Transaction "tx") can be constructed.
CanCall(t, md) ==
  /\ pc[t] = "idle"
  /\ m_ = NoThread
  /\ md # "raw" => gconn[t] = Null /\ txst[t] # "alive"

\* acquire() returns connection c to thread t: a direct caller keeps it, a
\* PooledConn stores it in c_, a Transaction goes on to call begin().
Deliver(t, md, c, path) ==
  /\ pc' = Upd(pc, t, IF md = "tx" THEN "begin" ELSE "idle")
  /\ held' = IF md = "raw" THEN Upd(held, t, held[t] \cup {c}) ELSE held
  /\ gconn' = IF md = "raw" THEN gconn ELSE Upd(gconn, t, c)
  /\ mode' = Upd(mode, t, "raw")
  /\ Rec(t, <<"acquire", path, c>>)

\* Mutant of AcquireIdle: the idle queue is ignored and a connection is created.
AcquireIdle_Fresh(t, md) ==
  /\ CanCall(t, md)
  /\ idle # <<>>
  /\ total' = total + 1
  /\ pc' = Upd(pc, t, "factory")
  /\ mode' = Upd(mode, t, md)
  /\ Enter(t)
  /\ UNCHANGED <<fnVars, migVars, cfg, idle, m_, nextId, held, gconn, wi, w0, txVars>>

\* acquire(), branch 1: an idle connection exists; pop and return it.
AcquireIdle(t, md) ==
  /\ CanCall(t, md)
  /\ idle # <<>>
  /\ idle' = Tail(idle)
  /\ Deliver(t, md, Head(idle), "idle")
  /\ UNCHANGED <<fnVars, migVars, cfg, total, m_, nextId, wi, w0, txVars>>

\* acquire(), branch 2: ++total_, unlock, then call the factory.
AcquireCreate(t, md) ==
  /\ CanCall(t, md)
  /\ idle = <<>>
  /\ total < cfg.max
  /\ total' = total + 1
  /\ pc' = Upd(pc, t, "factory")
  /\ mode' = Upd(mode, t, md)
  /\ Enter(t)
  /\ UNCHANGED <<fnVars, migVars, cfg, idle, m_, nextId, held, gconn, wi, w0, txVars>>

\* The factory returns a new connection, which acquire() returns.
FactoryReturn(t) ==
  /\ pc[t] = "factory"
  /\ nextId' = nextId + 1
  /\ Deliver(t, mode[t], nextId + 1, "factory")
  /\ UNCHANGED <<fnVars, migVars, cfg, idle, total, m_, wi, w0, txVars>>

\* The factory throws: the exception leaves acquire() (and the constructor of
\* the PooledConn or Transaction that called it); total_ is not touched.
FactoryThrow(t) ==
  /\ pc[t] = "factory"
  /\ pc' = Upd(pc, t, "idle")
  /\ mode' = Upd(mode, t, "raw")
  /\ Rec(t, <<"acquire_failed", "factory", Null>>)
  /\ UNCHANGED <<fnVars, migVars, cfg, idle, total, m_, nextId, held, gconn, wi, w0, txVars>>

\* Mutant of AcquireWait: instead of blocking, a connection is created beyond max.
AcquireWait_NoBlock(t, md) ==
  /\ CanCall(t, md)
  /\ idle = <<>>
  /\ ~(total < cfg.max)
  /\ total' = total + 1
  /\ pc' = Upd(pc, t, "factory")
  /\ mode' = Upd(mode, t, md)
  /\ Enter(t)
  /\ UNCHANGED <<fnVars, migVars, cfg, idle, m_, nextId, held, gconn, wi, w0, txVars>>

\* acquire(), branch 3: nothing idle and total_ >= max; block in cv_.wait.
AcquireWait(t, md) ==
  /\ CanCall(t, md)
  /\ idle = <<>>
  /\ ~(total < cfg.max)
  /\ pc' = Upd(pc, t, "wait")
  /\ mode' = Upd(mode, t, md)
  /\ Enter(t)
  /\ UNCHANGED <<fnVars, migVars, poolVars, held, gconn, wi, w0, txVars>>

\* cv_.wait may return without a notification.
SpuriousWake(t) ==
  /\ pc[t] = "wait"
  /\ pc' = Upd(pc, t, "woken")
  /\ UNCHANGED <<fnVars, migVars, poolVars, mode, held, gconn, wi, w0, txVars, hist>>

\* Mutant of WaitRecheck: a woken waiter takes the front of the queue without
\* re-checking the predicate; front() of an empty deque is any connection.
WaitRecheck_NoPredicate(t) ==
  /\ pc[t] = "woken"
  /\ m_ = NoThread
  /\ IF idle # <<>>
       THEN /\ idle' = Tail(idle)
            /\ Deliver(t, mode[t], Head(idle), "wait")
       ELSE /\ \E c \in 1..nextId : Deliver(t, mode[t], c, "wait")
            /\ UNCHANGED idle
  /\ UNCHANGED <<fnVars, migVars, cfg, total, m_, nextId, wi, w0, txVars>>

\* A woken waiter relocks m_ and re-checks the predicate !idle_.empty().
WaitRecheck(t) ==
  /\ pc[t] = "woken"
  /\ m_ = NoThread
  /\ IF idle # <<>>
       THEN /\ idle' = Tail(idle)
            /\ Deliver(t, mode[t], Head(idle), "wait")
       ELSE /\ pc' = Upd(pc, t, "wait")
            /\ UNCHANGED <<idle, mode, held, gconn, hist>>
  /\ UNCHANGED <<fnVars, migVars, cfg, total, m_, nextId, wi, w0, txVars>>

\* Mutant of Release: the connection is taken from the caller and not queued.
Release_Drop(t, c) ==
  /\ pc[t] = "idle"
  /\ m_ = NoThread
  /\ c \in held[t]
  /\ held' = Upd(held, t, held[t] \ {c})
  /\ Rec(t, <<"release", "raw", c>>)
  /\ pc' = Upd(pc, t, "notify")
  /\ UNCHANGED <<fnVars, migVars, cfg, idle, total, m_, nextId, mode, gconn, wi, w0, txVars>>

\* release(c) with c non-null, by the thread that got c from acquire():
\* push c under the lock; notify_one follows outside the lock.
Release(t, c) ==
  /\ pc[t] = "idle"
  /\ m_ = NoThread
  /\ c \in held[t]
  /\ idle' = Append(idle, c)
  /\ held' = Upd(held, t, held[t] \ {c})
  /\ Rec(t, <<"release", "raw", c>>)
  /\ pc' = Upd(pc, t, "notify")
  /\ UNCHANGED <<fnVars, migVars, cfg, total, m_, nextId, mode, gconn, wi, w0, txVars>>

\* cv_.notify_one(): wakes one thread blocked in cv_.wait, if there is one.
ReleaseNotify(t) ==
  /\ pc[t] = "notify"
  /\ IF Waiters # {}
       THEN \E w \in Waiters : pc' = [pc EXCEPT ![t] = "idle", ![w] = "woken"]
       ELSE pc' = Upd(pc, t, "idle")
  /\ UNCHANGED <<fnVars, migVars, poolVars, mode, held, gconn, wi, w0, txVars, hist>>

\* Mutant of GuardDtor: the connection is not released when the scope is left
\* by an exception.
GuardDtor_LeakOnUnwind(t, unwinding) ==
  /\ pc[t] = "idle"
  /\ m_ = NoThread
  /\ txst[t] # "alive"
  /\ gconn[t] # Null
  /\ idle' = IF unwinding THEN idle ELSE Append(idle, gconn[t])
  /\ gconn' = Upd(gconn, t, Null)
  /\ pc' = Upd(pc, t, "notify")
  /\ Rec(t, <<"release", IF unwinding THEN "unwind" ELSE "return", gconn[t]>>)
  /\ UNCHANGED <<fnVars, migVars, cfg, total, m_, nextId, mode, held, wi, w0, txVars>>

\* ~PooledConn of a guard the thread constructed itself, run when the guard's
\* scope is left by a return (unwinding = FALSE) or by an exception
\* (unwinding = TRUE): if (c_) pool_.release(std::move(c_)).
GuardDtor(t, unwinding) ==
  /\ pc[t] = "idle"
  /\ m_ = NoThread
  /\ txst[t] # "alive"
  /\ gconn[t] # Null
  /\ idle' = Append(idle, gconn[t])
  /\ gconn' = Upd(gconn, t, Null)
  /\ pc' = Upd(pc, t, "notify")
  /\ Rec(t, <<"release", IF unwinding THEN "unwind" ELSE "return", gconn[t]>>)
  /\ UNCHANGED <<fnVars, migVars, cfg, total, m_, nextId, mode, held, wi, w0, txVars>>

\* warmup(): lock_guard lk(m_), held for the whole loop.
WarmupLock(t) ==
  /\ pc[t] = "idle"
  /\ m_ = NoThread
  /\ total + cfg.min <= MaxTotal
  /\ m_' = t
  /\ Enter(t)
  /\ pc' = Upd(pc, t, "warmup")
  /\ wi' = Upd(wi, t, 0)
  /\ w0' = Upd(w0, t, <<Len(idle), total>>)
  /\ UNCHANGED <<fnVars, migVars, cfg, idle, total, nextId, mode, held, gconn, txVars>>

\* Mutant of WarmupIter: the connection is pushed but total_ is not incremented.
WarmupIter_NoCount(t) ==
  /\ pc[t] = "warmup"
  /\ wi[t] < cfg.min
  /\ nextId' = nextId + 1
  /\ idle' = Append(idle, nextId + 1)
  /\ wi' = Upd(wi, t, wi[t] + 1)
  /\ UNCHANGED <<fnVars, migVars, cfg, total, m_, pc, mode, held, gconn, w0, txVars, hist>>

\* One iteration of warmup's loop: factory_(), idle_.push, ++total_.
WarmupIter(t) ==
  /\ pc[t] = "warmup"
  /\ wi[t] < cfg.min
  /\ nextId' = nextId + 1
  /\ idle' = Append(idle, nextId + 1)
  /\ total' = total + 1
  /\ wi' = Upd(wi, t, wi[t] + 1)
  /\ UNCHANGED <<fnVars, migVars, cfg, m_, pc, mode, held, gconn, w0, txVars, hist>>

\* The factory throws inside warmup's loop: the exception leaves warmup() and
\* unlocks m_; the connections pushed so far stay.
WarmupThrow(t) ==
  /\ pc[t] = "warmup"
  /\ wi[t] < cfg.min
  /\ m_' = NoThread
  /\ pc' = Upd(pc, t, "idle")
  /\ wi' = Upd(wi, t, 0)
  /\ w0' = Upd(w0, t, <<0, 0>>)
  /\ Rec(t, <<"warmup_failed", "factory", Null>>)
  /\ UNCHANGED <<fnVars, migVars, cfg, idle, total, nextId, mode, held, gconn, txVars>>

\* warmup() returns after min iterations and unlocks m_.
WarmupReturn(t) ==
  /\ pc[t] = "warmup"
  /\ ~(wi[t] < cfg.min)
  /\ m_' = NoThread
  /\ pc' = Upd(pc, t, "idle")
  /\ wi' = Upd(wi, t, 0)
  /\ w0' = Upd(w0, t, <<0, 0>>)
  /\ Rec(t, <<"warmup", "return", Null>>)
  /\ UNCHANGED <<fnVars, migVars, cfg, idle, total, nextId, mode, held, gconn, txVars>>

\* The steps inside acquire() and release() that follow the call's entry.
PoolSteps ==
  \E t \in Threads :
    \/ FactoryReturn(t)
    \/ FactoryThrow(t)
    \/ SpuriousWake(t)
    \/ WaitRecheck(t)
    \/ ReleaseNotify(t)

\* acquire() and release() called directly or through a PooledConn guard.
NextAR ==
  \/ \E t \in Threads, md \in {"raw", "guard"} :
       \/ AcquireIdle(t, md)
       \/ AcquireCreate(t, md)
       \/ AcquireWait(t, md)
  \/ \E t \in Threads : \E c \in held[t] : Release(t, c)
  \/ \E t \in Threads, unwinding \in BOOLEAN : GuardDtor(t, unwinding)
  \/ PoolSteps

SpecAR == Init /\ [][NextAR]_vars

\* The same, with warmup().
NextPool ==
  \/ NextAR
  \/ \E t \in Threads :
       \/ WarmupLock(t)
       \/ WarmupIter(t)
       \/ WarmupThrow(t)
       \/ WarmupReturn(t)

SpecPool == Init /\ [][NextPool]_vars

\* Mutant of ReleaseNull: the null pointer is pushed onto idle_.
ReleaseNull_Push(t) ==
  /\ pc[t] = "idle"
  /\ m_ = NoThread
  /\ idle' = Append(idle, Null)
  /\ Rec(t, <<"release", "raw", Null>>)
  /\ pc' = Upd(pc, t, "notify")
  /\ UNCHANGED <<fnVars, migVars, cfg, total, m_, nextId, mode, held, gconn, wi, w0, txVars>>

\* release(c) with c null: the lock is taken, `if (c)` is false so nothing is
\* pushed, the lock is dropped; notify_one follows as for any release.
ReleaseNull(t) ==
  /\ pc[t] = "idle"
  /\ m_ = NoThread
  /\ Rec(t, <<"release", "raw", Null>>)
  /\ pc' = Upd(pc, t, "notify")
  /\ UNCHANGED <<fnVars, migVars, poolVars, mode, held, gconn, wi, w0, txVars>>

\* acquire() and release(), release() also called with a null pointer.
NextNull ==
  \/ NextAR
  \/ \E t \in Threads : ReleaseNull(t)

SpecNull == Init /\ [][NextNull]_vars

\* ------------------------------------------------------------ Transaction
\* Mutant of TxBegin: when begin() throws, the constructor calls rollback()
\* on the connection before the exception leaves.
TxBegin_RollbackOnFailure(t, ok) ==
  /\ pc[t] = "begin"
  /\ txLog' = Upd(txLog, t, IF ok THEN << <<"begin", ok>> >>
                                  ELSE << <<"begin", ok>>, <<"rollback", TRUE>> >>)
  /\ api' = Upd(api, t, <<>>)
  /\ dtorThrew' = Upd(dtorThrew, t, FALSE)
  /\ active' = Upd(active, t, ok)
  /\ txst' = Upd(txst, t, IF ok THEN "alive" ELSE "ctor_failed")
  /\ pc' = Upd(pc, t, IF ok THEN "idle" ELSE "txrelease")
  /\ UNCHANGED <<fnVars, migVars, poolVars, mode, held, gconn, wi, w0, hist>>

\* Transaction(pool): pooled_(pool) has acquired the connection; the body
\* calls begin().  If begin() throws, the exception leaves the constructor
\* and the constructed member pooled_ is destroyed.
TxBegin(t, ok) ==
  /\ pc[t] = "begin"
  /\ txLog' = Upd(txLog, t, << <<"begin", ok>> >>)
  /\ api' = Upd(api, t, <<>>)
  /\ dtorThrew' = Upd(dtorThrew, t, FALSE)
  /\ active' = Upd(active, t, ok)
  /\ txst' = Upd(txst, t, IF ok THEN "alive" ELSE "ctor_failed")
  /\ pc' = Upd(pc, t, IF ok THEN "idle" ELSE "txrelease")
  /\ UNCHANGED <<fnVars, migVars, poolVars, mode, held, gconn, wi, w0, hist>>

\* Mutant of TxCommit: active_ is left true after a successful commit.
TxCommit_KeepActive(t, ok) ==
  /\ pc[t] = "idle"
  /\ txst[t] = "alive"
  /\ SumLen(api, Threads) < MaxTxCalls
  /\ txLog' = Upd(txLog, t, Append(txLog[t], <<"commit", ok>>))
  /\ api' = Upd(api, t, Append(api[t], <<"commit", ok>>))
  /\ UNCHANGED <<fnVars, migVars, poolVars, thrVars, hist, txst, active, dtorThrew>>

\* Mutant of TxCommit: active_ is cleared also when the connection's commit() throws.
TxCommit_ClearOnFailure(t, ok) ==
  /\ pc[t] = "idle"
  /\ txst[t] = "alive"
  /\ SumLen(api, Threads) < MaxTxCalls
  /\ txLog' = Upd(txLog, t, Append(txLog[t], <<"commit", ok>>))
  /\ api' = Upd(api, t, Append(api[t], <<"commit", ok>>))
  /\ active' = Upd(active, t, FALSE)
  /\ UNCHANGED <<fnVars, migVars, poolVars, thrVars, hist, txst, dtorThrew>>

\* Transaction::commit(): pooled_.get().commit(); active_ = false.  When the
\* connection's commit() throws, the assignment is not reached.
TxCommit(t, ok) ==
  /\ pc[t] = "idle"
  /\ txst[t] = "alive"
  /\ SumLen(api, Threads) < MaxTxCalls
  /\ txLog' = Upd(txLog, t, Append(txLog[t], <<"commit", ok>>))
  /\ api' = Upd(api, t, Append(api[t], <<"commit", ok>>))
  /\ active' = Upd(active, t, IF ok THEN FALSE ELSE active[t])
  /\ UNCHANGED <<fnVars, migVars, poolVars, thrVars, hist, txst, dtorThrew>>

\* Transaction::rollback(): pooled_.get().rollback(); active_ = false.
TxRollback(t, ok) ==
  /\ pc[t] = "idle"
  /\ txst[t] = "alive"
  /\ SumLen(api, Threads) < MaxTxCalls
  /\ txLog' = Upd(txLog, t, Append(txLog[t], <<"rollback", ok>>))
  /\ api' = Upd(api, t, Append(api[t], <<"rollback", ok>>))
  /\ active' = Upd(active, t, IF ok THEN FALSE ELSE active[t])
  /\ UNCHANGED <<fnVars, migVars, poolVars, thrVars, hist, txst, dtorThrew>>

\* Mutant of TxDtor: the destructor makes no rollback attempt before the
\* connection is released.
TxDtor_NoRollback(t, ok) ==
  /\ pc[t] = "idle"
  /\ txst[t] = "alive"
  /\ dtorThrew' = Upd(dtorThrew, t, FALSE)
  /\ txst' = Upd(txst, t, "destroyed")
  /\ pc' = Upd(pc, t, "txrelease")
  /\ UNCHANGED <<fnVars, migVars, poolVars, mode, held, gconn, wi, w0, hist, active, api, txLog>>

\* Mutant of TxDtor: the destructor's rollback() is not wrapped in try/catch.
TxDtor_NoCatch(t, ok) ==
  /\ pc[t] = "idle"
  /\ txst[t] = "alive"
  /\ txLog' = IF active[t] THEN Upd(txLog, t, Append(txLog[t], <<"rollback", ok>>))
                           ELSE txLog
  /\ dtorThrew' = Upd(dtorThrew, t, active[t] /\ ~ok)
  /\ txst' = Upd(txst, t, "destroyed")
  /\ pc' = Upd(pc, t, "txrelease")
  /\ UNCHANGED <<fnVars, migVars, poolVars, mode, held, gconn, wi, w0, hist, active, api>>

\* ~Transaction(): if (active_) try { rollback(); } catch (...) {}; the member
\* pooled_ is destroyed next.
TxDtor(t, ok) ==
  /\ pc[t] = "idle"
  /\ txst[t] = "alive"
  /\ txLog' = IF active[t] THEN Upd(txLog, t, Append(txLog[t], <<"rollback", ok>>))
                           ELSE txLog
  /\ dtorThrew' = Upd(dtorThrew, t, FALSE)
  /\ txst' = Upd(txst, t, "destroyed")
  /\ pc' = Upd(pc, t, "txrelease")
  /\ UNCHANGED <<fnVars, migVars, poolVars, mode, held, gconn, wi, w0, hist, active, api>>

\* ~PooledConn of the Transaction's member pooled_; the object is gone.
TxRelease(t) ==
  /\ pc[t] = "txrelease"
  /\ m_ = NoThread
  /\ gconn[t] # Null
  /\ idle' = Append(idle, gconn[t])
  /\ gconn' = Upd(gconn, t, Null)
  /\ pc' = Upd(pc, t, "notify")
  /\ Rec(t, <<"release", "tx", gconn[t]>>)
  /\ txst' = Upd(txst, t, "none")
  /\ active' = Upd(active, t, FALSE)
  /\ api' = Upd(api, t, <<>>)
  /\ txLog' = Upd(txLog, t, <<>>)
  /\ UNCHANGED <<fnVars, migVars, cfg, total, m_, nextId, mode, held, wi, w0, dtorThrew>>

\* Threads construct, use and destroy Transaction objects on one pool.
NextTx ==
  \/ \E t \in Threads :
       \/ AcquireIdle(t, "tx")
       \/ AcquireCreate(t, "tx")
       \/ AcquireWait(t, "tx")
       \/ TxRelease(t)
  \/ \E t \in Threads, ok \in BOOLEAN :
       \/ TxBegin(t, ok)
       \/ TxCommit(t, ok)
       \/ TxRollback(t, ok)
       \/ TxDtor(t, ok)
  \/ PoolSteps

SpecTx == Init /\ [][NextTx]_vars

\* A runnable thread eventually runs: a woken waiter relocks m_ and re-checks,
\* and a thread that has pushed a connection goes on to notify_one.
FairSpecAR ==
  /\ SpecAR
  /\ \A t \in Threads : WF_vars(WaitRecheck(t)) /\ WF_vars(ReleaseNotify(t))

\* The same, and a call of the factory eventually ends, and a waiter that is
\* woken again and again while a connection is idle eventually is the one
\* that takes it.
FairSpecWaiter ==
  /\ FairSpecAR
  /\ \A t \in Threads :
       /\ WF_vars(FactoryReturn(t) \/ FactoryThrow(t))
       /\ SF_vars(WaitRecheck(t) /\ idle # <<>>)

\* ---------------------------------------------------- FileMigrationsRunner
\* Contents an up-script can have: one statement, or the statements
\* 1..MaxStmts in file order.
Scripts == {<<1>>, [k \in 1..MaxStmts |-> k]}

\* The statements of every <id>.down.sql.
down_sql == <<1>>

\* Checksum of a script's content: a positional code of its statements, so
\* that different contents have different checksums.
RECURSIVE up_checksum(_)
up_checksum(s) ==
  IF s = <<>> THEN 1 ELSE Head(s) + (MaxStmts + 2) * up_checksum(Tail(s))

\* Mutant of SortById: the pairs are sorted by id, descending.
RECURSIVE SortById_Desc(_)
SortById_Desc(S) ==
  IF S = {} THEN <<>>
  ELSE LET a == CHOOSE x \in S : \A y \in S : x.id >= y.id
       IN <<a>> \o SortById_Desc(S \ {a})

\* std::sort of the pairs by id, ascending.
RECURSIVE SortById(_)
SortById(S) ==
  IF S = {} THEN <<>>
  ELSE LET a == CHOOSE x \in S : \A y \in S : x.id <= y.id
       IN <<a>> \o SortById(S \ {a})

\* Mutant of scanPairs: a down file without up file gives a pair too.
scanPairs_WithOrphans ==
  SortById({[id |-> i, up_checksum |-> up_checksum(up[i]), down |-> down[i]] :
              i \in {j \in Ids : up[j] # NoFile \/ down[j]}})

\* scanPairs(): one pair per <id>.up.sql, with the checksum of its content and
\* its down path (empty when there is no <id>.down.sql); a down file without
\* up file gives no pair.
scanPairs ==
  SortById({[id |-> i, up_checksum |-> up_checksum(up[i]), down |-> down[i]] :
              i \in {j \in Ids : up[j] # NoFile}})

\* isApplied(id): SELECT checksum ... WHERE id = ? returns a row.
isApplied(id) == wrec[id] # NoRec

\* Mutant of lastAppliedId: ORDER BY id ascending.
lastAppliedId_Min ==
  IF \E i \in Ids : wrec[i] # NoRec
    THEN CHOOSE i \in Ids : wrec[i] # NoRec /\ \A j \in Ids : wrec[j] # NoRec => i <= j
    ELSE NoId

\* lastAppliedId(): SELECT id ... ORDER BY id DESC LIMIT 1, or the empty string.
lastAppliedId ==
  IF \E i \in Ids : wrec[i] # NoRec
    THEN CHOOSE i \in Ids : wrec[i] # NoRec /\ \A j \in Ids : wrec[j] # NoRec => j <= i
    ELSE NoId

\* byId.find(id): positions of id in the scanned pairs.
byId(id) == {j \in 1..Len(pairs) : pairs[j].id = id}

\* A call made on conn_ is recorded with its outcome.
Called(kind, id, k, ok) == log' = Append(log, <<kind, id, k, ok>>)

\* The exception thrown by a failed call on conn_, named after the call.
Thrown(kind) ==
  CASE kind = "begin" -> "begin failed"
    [] kind \in {"exec", "exec_down"} -> "statement failed"
    [] kind = "insert" -> "insert failed"
    [] kind = "delete" -> "delete failed"
    [] kind = "commit" -> "commit failed"
    [] OTHER -> "rollback failed"

\* The exceptions that leave a try block of the runner.
StepErrors ==
  {"begin failed", "statement failed", "insert failed", "delete failed", "commit failed"}

\* The class of the exception a call of the runner ends with, by outcome:
\* each throw statement of applyAll() and rollback() constructs a DBError,
\* and `throw;` in a catch block passes on what the call on conn_ threw.
ExceptionClass(r) ==
  CASE r \in {"drift", "nothing", "notfound", "nodown"} -> "DBError"
    [] r \in StepErrors -> "thrown by conn_"
    [] OTHER -> "none"

\* The call in progress ends with outcome r; its locals are gone.
Finish(r) ==
  /\ rpc' = "idle"
  /\ res' = r
  /\ pairs' = <<>>
  /\ ri' = 0
  /\ rk' = 0
  /\ m' = NoPair

\* A file is written to or removed from the directory: what was recorded
\* about the last call no longer describes the directory.
Forget ==
  /\ op' = "none"
  /\ res' = "none"
  /\ log' = <<>>
  /\ rec0' = [i \in Ids |-> NoRec]
  /\ again' = FALSE
  /\ trip' = 0
  /\ steps' = 0

\* <id>.up.sql is created, rewritten or removed while no call is in progress.
WriteUp(id, s) ==
  /\ rpc = "idle"
  /\ s # up[id]
  /\ up' = [up EXCEPT ![id] = s]
  /\ Forget
  /\ UNCHANGED <<fnVars, poolVars, thrVars, txVars, hist, down, dbVars, rpc, pairs, ri, rk, m>>

\* <id>.down.sql is created or removed while no call is in progress.
WriteDown(id) ==
  /\ rpc = "idle"
  /\ down' = [down EXCEPT ![id] = ~down[id]]
  /\ Forget
  /\ UNCHANGED <<fnVars, poolVars, thrVars, txVars, hist, up, dbVars, rpc, pairs, ri, rk, m>>

\* applyAll(): ensureTable(); pairs = scanPairs().
ApplyAllEnter ==
  /\ rpc = "idle"
  /\ tableExists' = TRUE
  /\ pairs' = scanPairs
  /\ ri' = 1
  /\ rpc' = "apply_loop"
  /\ steps' = 0
  /\ op' = "applyAll"
  /\ res' = "running"
  /\ log' = <<>>
  /\ rec0' = crec
  /\ again' = (op = "applyAll" /\ res = "ok")
  /\ trip' = IF (\A i \in Ids : crec[i] = NoRec) /\ (\A i \in Ids : up[i] # NoFile => down[i])
              THEN 1 ELSE 0
  /\ UNCHANGED <<fnVars, poolVars, thrVars, txVars, hist, dirVars, lastUp, crec, cup, wrec, wup, inTx, rk, m>>

\* Mutant of ApplySkip: a recorded migration is not skipped but applied again.
ApplySkip_Reapply ==
  /\ rpc = "apply_loop"
  /\ ri <= Len(pairs)
  /\ isApplied(pairs[ri].id)
  /\ wrec[pairs[ri].id] = pairs[ri].up_checksum
  /\ m' = pairs[ri]
  /\ inTx' = TRUE
  /\ rk' = 1
  /\ rpc' = "apply_exec"
  /\ Called("begin", pairs[ri].id, 0, TRUE)
  /\ UNCHANGED <<fnVars, poolVars, thrVars, txVars, hist, dirVars, tableExists, lastUp, crec, cup, wrec, wup,
                 pairs, ri, steps, op, res, rec0, again, trip>>

\* The loop of applyAll: the pair has a record with the same checksum; continue.
ApplySkip ==
  /\ rpc = "apply_loop"
  /\ ri <= Len(pairs)
  /\ isApplied(pairs[ri].id)
  /\ wrec[pairs[ri].id] = pairs[ri].up_checksum
  /\ ri' = ri + 1
  /\ UNCHANGED <<fnVars, poolVars, thrVars, txVars, hist, dirVars, dbVars, rpc, pairs, rk, m, steps, obsVars>>

\* Mutant of ApplyDrift: a changed checksum is ignored and the loop continues.
ApplyDrift_Ignore ==
  /\ rpc = "apply_loop"
  /\ ri <= Len(pairs)
  /\ isApplied(pairs[ri].id)
  /\ wrec[pairs[ri].id] # pairs[ri].up_checksum
  /\ ri' = ri + 1
  /\ UNCHANGED <<fnVars, poolVars, thrVars, txVars, hist, dirVars, dbVars, rpc, pairs, rk, m, steps, obsVars>>

\* The pair has a record with another checksum; throw DBError.
ApplyDrift ==
  /\ rpc = "apply_loop"
  /\ ri <= Len(pairs)
  /\ isApplied(pairs[ri].id)
  /\ wrec[pairs[ri].id] # pairs[ri].up_checksum
  /\ Finish("drift")
  /\ UNCHANGED <<fnVars, poolVars, thrVars, txVars, hist, dirVars, dbVars, steps, op, log, rec0, again, trip>>

\* The loop is over; applyAll() returns.
ApplyReturn ==
  /\ rpc = "apply_loop"
  /\ ~(ri <= Len(pairs))
  /\ Finish("ok")
  /\ UNCHANGED <<fnVars, poolVars, thrVars, txVars, hist, dirVars, dbVars, steps, op, log, rec0, again, trip>>

\* The pair has no record: try { conn_.begin(); ...
ApplyBegin(ok) ==
  /\ rpc = "apply_loop"
  /\ ri <= Len(pairs)
  /\ ~isApplied(pairs[ri].id)
  /\ m' = pairs[ri]
  /\ inTx' = (inTx \/ ok)
  /\ rk' = 1
  /\ rpc' = IF ok THEN "apply_exec" ELSE "apply_catch"
  /\ Called("begin", pairs[ri].id, 0, ok)
  /\ UNCHANGED <<fnVars, poolVars, thrVars, txVars, hist, dirVars, tableExists, lastUp, crec, cup, wrec, wup,
                 pairs, ri, steps, op, res, rec0, again, trip>>

\* execScript(readFileText(m.up_path)): the next statement of the up-script.
ApplyExec(ok) ==
  /\ rpc = "apply_exec"
  /\ rk <= Len(up[m.id])
  /\ Called("exec", m.id, up[m.id][rk], ok)
  /\ IF ok
       THEN /\ rk' = rk + 1
            /\ wup' = IF rk = Len(up[m.id]) THEN [wup EXCEPT ![m.id] = TRUE] ELSE wup
            /\ rpc' = rpc
       ELSE /\ rpc' = "apply_catch"
            /\ UNCHANGED <<rk, wup>>
  /\ UNCHANGED <<fnVars, poolVars, thrVars, txVars, hist, dirVars, tableExists, lastUp, crec, cup, wrec, inTx,
                 pairs, ri, m, steps, op, res, rec0, again, trip>>

\* Mutant of ApplyMark: the record is inserted with another checksum than m.up_checksum.
ApplyMark_OtherChecksum(ok) ==
  /\ rpc = "apply_exec"
  /\ ~(rk <= Len(up[m.id]))
  /\ Called("insert", m.id, m.up_checksum, ok)
  /\ wrec' = IF ok THEN [wrec EXCEPT ![m.id] = m.up_checksum + 1] ELSE wrec
  /\ rpc' = IF ok THEN "apply_commit" ELSE "apply_catch"
  /\ UNCHANGED <<fnVars, poolVars, thrVars, txVars, hist, dirVars, tableExists, lastUp, crec, cup, wup, inTx,
                 pairs, ri, rk, m, steps, op, res, rec0, again, trip>>

\* markApplied(m.id, m.up_checksum): INSERT INTO the tracking table.
ApplyMark(ok) ==
  /\ rpc = "apply_exec"
  /\ ~(rk <= Len(up[m.id]))
  /\ Called("insert", m.id, m.up_checksum, ok)
  /\ wrec' = IF ok THEN [wrec EXCEPT ![m.id] = m.up_checksum] ELSE wrec
  /\ rpc' = IF ok THEN "apply_commit" ELSE "apply_catch"
  /\ UNCHANGED <<fnVars, poolVars, thrVars, txVars, hist, dirVars, tableExists, lastUp, crec, cup, wup, inTx,
                 pairs, ri, rk, m, steps, op, res, rec0, again, trip>>

\* conn_.commit(); on success the loop goes on with the next pair.
ApplyCommit(ok) ==
  /\ rpc = "apply_commit"
  /\ Called("commit", m.id, 0, ok)
  /\ IF ok
       THEN /\ crec' = wrec
            /\ cup' = wup
            /\ inTx' = FALSE
            /\ lastUp' = m.id
            /\ ri' = ri + 1
            /\ rk' = 0
            /\ m' = NoPair
            /\ rpc' = "apply_loop"
       ELSE /\ rpc' = "apply_catch"
            /\ UNCHANGED <<crec, cup, inTx, lastUp, ri, rk, m>>
  /\ UNCHANGED <<fnVars, poolVars, thrVars, txVars, hist, dirVars, tableExists, wrec, wup,
                 pairs, steps, op, res, rec0, again, trip>>

\* Mutant of ApplyCatch: the exception is rethrown without conn_.rollback().
ApplyCatch_NoRollback(ok) ==
  /\ rpc = "apply_catch"
  /\ Finish(Thrown(log[Len(log)][1]))
  /\ UNCHANGED <<fnVars, poolVars, thrVars, txVars, hist, dirVars, dbVars, steps, op, log, rec0, again, trip>>

\* catch (...) { try { conn_.rollback(); } catch (...) {} throw; }: the
\* exception rethrown is the one of the call that failed.  The transaction was
\* not committed, so the database drops its changes, also when rollback()
\* itself reports an error.
ApplyCatch(ok) ==
  /\ rpc = "apply_catch"
  /\ Called("rollback", m.id, 0, ok)
  /\ wrec' = crec
  /\ wup' = cup
  /\ inTx' = FALSE
  /\ Finish(Thrown(log[Len(log)][1]))
  /\ UNCHANGED <<fnVars, poolVars, thrVars, txVars, hist, dirVars, tableExists, lastUp, crec, cup,
                 steps, op, rec0, again, trip>>

\* Mutant of RollbackNoop: the record of the last applied migration is deleted.
RollbackNoop_Unmark(n) ==
  /\ rpc = "idle"
  /\ n <= 0
  /\ tableExists' = TRUE
  /\ crec' = IF lastAppliedId = NoId THEN crec ELSE [crec EXCEPT ![lastAppliedId] = NoRec]
  /\ wrec' = crec'
  /\ steps' = n
  /\ op' = "rollback"
  /\ res' = "ok"
  /\ log' = <<>>
  /\ rec0' = crec
  /\ again' = FALSE
  /\ trip' = IF trip = 1 /\ op = "applyAll" /\ res = "ok" /\ n = Len(scanPairs) THEN 2 ELSE 0
  /\ UNCHANGED <<fnVars, poolVars, thrVars, txVars, hist, dirVars, lastUp, cup, wup, inTx,
                 rpc, pairs, ri, rk, m>>

\* rollback(steps) with steps <= 0: ensureTable(); return.
RollbackNoop(n) ==
  /\ rpc = "idle"
  /\ n <= 0
  /\ tableExists' = TRUE
  /\ steps' = n
  /\ op' = "rollback"
  /\ res' = "ok"
  /\ log' = <<>>
  /\ rec0' = crec
  /\ again' = FALSE
  /\ trip' = IF trip = 1 /\ op = "applyAll" /\ res = "ok" /\ n = Len(scanPairs) THEN 2 ELSE 0
  /\ UNCHANGED <<fnVars, poolVars, thrVars, txVars, hist, dirVars, lastUp, crec, cup, wrec, wup, inTx,
                 rpc, pairs, ri, rk, m>>

\* rollback(steps) with steps > 0: ensureTable(); byId = scanPairs().
RollbackEnter(n) ==
  /\ rpc = "idle"
  /\ ~(n <= 0)
  /\ tableExists' = TRUE
  /\ pairs' = scanPairs
  /\ ri' = 0
  /\ steps' = n
  /\ rpc' = "rb_loop"
  /\ op' = "rollback"
  /\ res' = "running"
  /\ log' = <<>>
  /\ rec0' = crec
  /\ again' = FALSE
  /\ trip' = IF trip = 1 /\ op = "applyAll" /\ res = "ok" /\ n = Len(scanPairs) THEN 2
              ELSE IF trip = 2 /\ op = "rollback" /\ res = "ok" /\ n = 1 THEN 3
              ELSE 0
  /\ UNCHANGED <<fnVars, poolVars, thrVars, txVars, hist, dirVars, lastUp, crec, cup, wrec, wup, inTx, rk, m>>

\* i < steps is false; rollback() returns.
RollbackReturn ==
  /\ rpc = "rb_loop"
  /\ ~(ri < steps)
  /\ Finish("ok")
  /\ UNCHANGED <<fnVars, poolVars, thrVars, txVars, hist, dirVars, dbVars, steps, op, log, rec0, again, trip>>

\* Mutant of RollbackNothing: an empty tracking table ends the call normally.
RollbackNothing_Return ==
  /\ rpc = "rb_loop"
  /\ ri < steps
  /\ lastAppliedId = NoId
  /\ Finish("ok")
  /\ UNCHANGED <<fnVars, poolVars, thrVars, txVars, hist, dirVars, dbVars, steps, op, log, rec0, again, trip>>

\* lastAppliedId() is empty; throw "No applied migrations to rollback."
RollbackNothing ==
  /\ rpc = "rb_loop"
  /\ ri < steps
  /\ lastAppliedId = NoId
  /\ Finish("nothing")
  /\ UNCHANGED <<fnVars, poolVars, thrVars, txVars, hist, dirVars, dbVars, steps, op, log, rec0, again, trip>>

\* byId has no pair for the id; throw "migration files not found".
RollbackNotFound ==
  /\ rpc = "rb_loop"
  /\ ri < steps
  /\ lastAppliedId # NoId
  /\ byId(lastAppliedId) = {}
  /\ Finish("notfound")
  /\ UNCHANGED <<fnVars, poolVars, thrVars, txVars, hist, dirVars, dbVars, steps, op, log, rec0, again, trip>>

\* Mutant of RollbackNoDown: a pair without down-script is reverted all the same.
RollbackNoDown_Proceed ==
  /\ rpc = "rb_loop"
  /\ ri < steps
  /\ lastAppliedId # NoId
  /\ \E j \in byId(lastAppliedId) :
       /\ ~pairs[j].down
       /\ m' = pairs[j]
  /\ inTx' = TRUE
  /\ rk' = 1
  /\ rpc' = "rb_exec"
  /\ Called("begin", lastAppliedId, 0, TRUE)
  /\ UNCHANGED <<fnVars, poolVars, thrVars, txVars, hist, dirVars, tableExists, lastUp, crec, cup, wrec, wup,
                 pairs, ri, steps, op, res, rec0, again, trip>>

\* The pair's down_path is empty; throw "missing .down.sql".
RollbackNoDown ==
  /\ rpc = "rb_loop"
  /\ ri < steps
  /\ lastAppliedId # NoId
  /\ \E j \in byId(lastAppliedId) : ~pairs[j].down
  /\ Finish("nodown")
  /\ UNCHANGED <<fnVars, poolVars, thrVars, txVars, hist, dirVars, dbVars, steps, op, log, rec0, again, trip>>

\* The pair of the last applied id has a down-script: try { conn_.begin(); ...
RollbackBegin(ok) ==
  /\ rpc = "rb_loop"
  /\ ri < steps
  /\ lastAppliedId # NoId
  /\ \E j \in byId(lastAppliedId) :
       /\ pairs[j].down
       /\ m' = pairs[j]
  /\ inTx' = (inTx \/ ok)
  /\ rk' = 1
  /\ rpc' = IF ok THEN "rb_exec" ELSE "rb_catch"
  /\ Called("begin", lastAppliedId, 0, ok)
  /\ UNCHANGED <<fnVars, poolVars, thrVars, txVars, hist, dirVars, tableExists, lastUp, crec, cup, wrec, wup,
                 pairs, ri, steps, op, res, rec0, again, trip>>

\* execScript(readFileText(m.down_path)): the next statement of the down-script.
RollbackExec(ok) ==
  /\ rpc = "rb_exec"
  /\ rk <= Len(down_sql)
  /\ Called("exec_down", m.id, down_sql[rk], ok)
  /\ IF ok
       THEN /\ rk' = rk + 1
            /\ wup' = IF rk = Len(down_sql) THEN [wup EXCEPT ![m.id] = FALSE] ELSE wup
            /\ rpc' = rpc
       ELSE /\ rpc' = "rb_catch"
            /\ UNCHANGED <<rk, wup>>
  /\ UNCHANGED <<fnVars, poolVars, thrVars, txVars, hist, dirVars, tableExists, lastUp, crec, cup, wrec, inTx,
                 pairs, ri, m, steps, op, res, rec0, again, trip>>

\* Mutant of RollbackUnmark: the tracking record is not deleted.
RollbackUnmark_Keep(ok) ==
  /\ rpc = "rb_exec"
  /\ ~(rk <= Len(down_sql))
  /\ Called("delete", m.id, 0, ok)
  /\ rpc' = IF ok THEN "rb_commit" ELSE "rb_catch"
  /\ UNCHANGED <<fnVars, poolVars, thrVars, txVars, hist, dirVars, dbVars,
                 pairs, ri, rk, m, steps, op, res, rec0, again, trip>>

\* Mutant of RollbackUnmark: the DELETE has no WHERE clause.
RollbackUnmark_All(ok) ==
  /\ rpc = "rb_exec"
  /\ ~(rk <= Len(down_sql))
  /\ Called("delete", m.id, 0, ok)
  /\ wrec' = IF ok THEN [i \in Ids |-> NoRec] ELSE wrec
  /\ rpc' = IF ok THEN "rb_commit" ELSE "rb_catch"
  /\ UNCHANGED <<fnVars, poolVars, thrVars, txVars, hist, dirVars, tableExists, lastUp, crec, cup, wup, inTx,
                 pairs, ri, rk, m, steps, op, res, rec0, again, trip>>

\* unmarkApplied(id): DELETE FROM the tracking table.
RollbackUnmark(ok) ==
  /\ rpc = "rb_exec"
  /\ ~(rk <= Len(down_sql))
  /\ Called("delete", m.id, 0, ok)
  /\ wrec' = IF ok THEN [wrec EXCEPT ![m.id] = NoRec] ELSE wrec
  /\ rpc' = IF ok THEN "rb_commit" ELSE "rb_catch"
  /\ UNCHANGED <<fnVars, poolVars, thrVars, txVars, hist, dirVars, tableExists, lastUp, crec, cup, wup, inTx,
                 pairs, ri, rk, m, steps, op, res, rec0, again, trip>>

\* Mutant of RollbackCommit: the loop counter is advanced by two.
RollbackCommit_SkipStep(ok) ==
  /\ rpc = "rb_commit"
  /\ Called("commit", m.id, 0, ok)
  /\ IF ok
       THEN /\ crec' = wrec
            /\ cup' = wup
            /\ inTx' = FALSE
            /\ lastUp' = IF lastUp = m.id THEN NoId ELSE lastUp
            /\ ri' = ri + 2
            /\ rk' = 0
            /\ m' = NoPair
            /\ rpc' = "rb_loop"
       ELSE /\ rpc' = "rb_catch"
            /\ UNCHANGED <<crec, cup, inTx, lastUp, ri, rk, m>>
  /\ UNCHANGED <<fnVars, poolVars, thrVars, txVars, hist, dirVars, tableExists, wrec, wup,
                 pairs, steps, op, res, rec0, again, trip>>

\* conn_.commit(); on success ++i.
RollbackCommit(ok) ==
  /\ rpc = "rb_commit"
  /\ Called("commit", m.id, 0, ok)
  /\ IF ok
       THEN /\ crec' = wrec
            /\ cup' = wup
            /\ inTx' = FALSE
            /\ lastUp' = IF lastUp = m.id THEN NoId ELSE lastUp
            /\ ri' = ri + 1
            /\ rk' = 0
            /\ m' = NoPair
            /\ rpc' = "rb_loop"
       ELSE /\ rpc' = "rb_catch"
            /\ UNCHANGED <<crec, cup, inTx, lastUp, ri, rk, m>>
  /\ UNCHANGED <<fnVars, poolVars, thrVars, txVars, hist, dirVars, tableExists, wrec, wup,
                 pairs, steps, op, res, rec0, again, trip>>

\* Mutant of RollbackCatch: the exception is rethrown without conn_.rollback().
RollbackCatch_Rethrow(ok) ==
  /\ rpc = "rb_catch"
  /\ Finish(Thrown(log[Len(log)][1]))
  /\ UNCHANGED <<fnVars, poolVars, thrVars, txVars, hist, dirVars, dbVars, steps, op, log, rec0, again, trip>>

\* catch (...) { try { conn_.rollback(); } catch (...) {} throw; }
RollbackCatch(ok) ==
  /\ rpc = "rb_catch"
  /\ Called("rollback", m.id, 0, ok)
  /\ wrec' = crec
  /\ wup' = cup
  /\ inTx' = FALSE
  /\ Finish(Thrown(log[Len(log)][1]))
  /\ UNCHANGED <<fnVars, poolVars, thrVars, txVars, hist, dirVars, tableExists, lastUp, crec, cup,
                 steps, op, rec0, again, trip>>

\* One runner on one connection; files change between its calls.
NextMig ==
  \/ \E id \in Ids, s \in Scripts \cup {NoFile} : WriteUp(id, s)
  \/ \E id \in Ids : WriteDown(id)
  \/ ApplyAllEnter
  \/ ApplySkip
  \/ ApplyDrift
  \/ ApplyReturn
  \/ \E ok \in BOOLEAN :
       \/ ApplyBegin(ok)
       \/ ApplyExec(ok)
       \/ ApplyMark(ok)
       \/ ApplyCommit(ok)
       \/ ApplyCatch(ok)
  \/ \E n \in (-1)..0 : RollbackNoop(n)
  \/ \E n \in 1..MaxSteps : RollbackEnter(n)
  \/ RollbackReturn
  \/ RollbackNothing
  \/ RollbackNotFound
  \/ RollbackNoDown
  \/ \E ok \in BOOLEAN :
       \/ RollbackBegin(ok)
       \/ RollbackExec(ok)
       \/ RollbackUnmark(ok)
       \/ RollbackCommit(ok)
       \/ RollbackCatch(ok)

InitMig ==
  /\ cfg = [min |-> 0, max |-> 1]
  /\ InitPool
  /\ InitMigration
  /\ InitFn

SpecMig == InitMig /\ [][NextMig]_vars

\* ------------------------------------------------------- splitStatements
\* The characters a script is written with: the separator, the two quote
\* characters, one whitespace character and one ordinary character.
Alphabet == {";", "'", "\"", " ", "a"}

\* Every text of at most MaxLen characters.
Texts == UNION {[1..n -> Alphabet] : n \in 0..MaxLen}

\* std::isspace on the alphabet.
is_ws(c) == c = " "

RECURSIVE trim_front(_)
\* while (!s.empty() && is_ws(s.front())) s.erase(s.begin());
trim_front(s) ==
  IF s # <<>> /\ is_ws(Head(s)) THEN trim_front(Tail(s)) ELSE s

RECURSIVE trim_back(_)
\* while (!s.empty() && is_ws(s.back())) s.pop_back();
trim_back(s) ==
  IF s # <<>> /\ is_ws(s[Len(s)]) THEN trim_back(SubSeq(s, 1, Len(s) - 1)) ELSE s

\* FileMigrationsRunner::trim
trim(s) == trim_back(trim_front(s))

\* if (!stmt.empty()) out.push_back(std::move(stmt));
push_back_nonempty(v, stmt) == IF stmt # <<>> THEN Append(v, stmt) ELSE v

\* in_sq after the first test of the loop body on character c.
sq_after(c) == IF c = "'" /\ ~in_dq THEN ~in_sq ELSE in_sq

\* in_dq after the second test of the loop body on character c.
dq_after(c) == IF c = "\"" /\ ~sq_after(c) THEN ~in_dq ELSE in_dq

\* Mutation of SplitBoundary: every ';' ends the statement, quoted or not.
SplitBoundary_IgnoreQuotes ==
  /\ ~returned
  /\ si <= Len(sql)
  /\ LET c == sql[si] IN
       /\ c = ";"
       /\ out' = push_back_nonempty(out, trim(cur))
       /\ cur' = <<>>
       /\ in_sq' = sq_after(c)
       /\ in_dq' = dq_after(c)
  /\ si' = si + 1
  /\ UNCHANGED <<sql, returned>>
  /\ UNCHANGED <<poolVars, thrVars, txVars, hist, migVars, uowVars, shaVars, ccVars>>

\* One iteration of the loop on a ';' outside both kinds of literal: the
\* collected statement is trimmed, kept when non-empty, and cur is cleared.
SplitBoundary ==
  /\ ~returned
  /\ si <= Len(sql)
  /\ LET c == sql[si] IN
       /\ c = ";" /\ ~sq_after(c) /\ ~dq_after(c)
       /\ out' = push_back_nonempty(out, trim(cur))
       /\ cur' = <<>>
       /\ in_sq' = sq_after(c)
       /\ in_dq' = dq_after(c)
  /\ si' = si + 1
  /\ UNCHANGED <<sql, returned>>
  /\ UNCHANGED <<poolVars, thrVars, txVars, hist, migVars, uowVars, shaVars, ccVars>>

\* One iteration of the loop on any other character: the quote flags are
\* toggled and the character is collected.
SplitChar ==
  /\ ~returned
  /\ si <= Len(sql)
  /\ LET c == sql[si] IN
       /\ ~(c = ";" /\ ~sq_after(c) /\ ~dq_after(c))
       /\ cur' = Append(cur, c)
       /\ in_sq' = sq_after(c)
       /\ in_dq' = dq_after(c)
  /\ si' = si + 1
  /\ UNCHANGED <<sql, out, returned>>
  /\ UNCHANGED <<poolVars, thrVars, txVars, hist, migVars, uowVars, shaVars, ccVars>>

\* After the loop: what is left in cur is trimmed, kept when non-empty, and
\* out is returned.
SplitReturn ==
  /\ ~returned
  /\ si > Len(sql)
  /\ out' = push_back_nonempty(out, trim(cur))
  /\ returned' = TRUE
  /\ UNCHANGED <<sql, si, cur, in_sq, in_dq>>
  /\ UNCHANGED <<poolVars, thrVars, txVars, hist, migVars, uowVars, shaVars, ccVars>>

NextSplit ==
  \/ SplitBoundary
  \/ SplitChar
  \/ SplitReturn

\* splitStatements has been called on some text and is at its first line.
InitSplitCall ==
  /\ cfg = [min |-> 0, max |-> 1]
  /\ InitPool
  /\ InitMigration
  /\ sql \in Texts
  /\ si = 1
  /\ cur = <<>>
  /\ in_sq = FALSE
  /\ in_dq = FALSE
  /\ out = <<>>
  /\ returned = FALSE
  /\ InitUow
  /\ InitSha
  /\ InitRunners

SpecSplit == InitSplitCall /\ [][NextSplit]_vars

\* ------------------------------------------------------------ UnitOfWork
\* Transaction(pool): pooled_(pool) acquires (acq: the acquire succeeds), then
\* begin() is called (ok: it does not throw); when begin() throws, pooled_ is
\* destroyed and releases the connection, and no object exists.
Transaction_ctor(acq, ok) ==
  IF ~acq THEN [st |-> "none", active |-> FALSE, calls |-> << <<"acquire", FALSE>> >>]
  ELSE IF ok
    THEN [st |-> "alive", active |-> TRUE,
          calls |-> << <<"acquire", TRUE>>, <<"begin", TRUE>> >>]
    ELSE [st |-> "none", active |-> FALSE,
          calls |-> << <<"acquire", TRUE>>, <<"begin", FALSE>>, <<"release", TRUE>> >>]

\* Transaction::commit(): pooled_.get().commit(); active_ = false.
Transaction_commit(x, ok) ==
  [x EXCEPT !.calls = Append(@, <<"commit", ok>>),
            !.active = IF ok THEN FALSE ELSE @]

\* Transaction::rollback(): pooled_.get().rollback(); active_ = false.
Transaction_rollback(x, ok) ==
  [x EXCEPT !.calls = Append(@, <<"rollback", ok>>),
            !.active = IF ok THEN FALSE ELSE @]

\* ~Transaction(): if (active_) try { rollback(); } catch (...) {}; then
\* ~PooledConn releases the connection.
Transaction_dtor(x, ok) ==
  [x EXCEPT !.st = "destroyed",
            !.calls = (IF x.active THEN Append(@, <<"rollback", ok>>) ELSE @)
                         \o << <<"release", TRUE>> >>]

\* UnitOfWork(pool) : tx_(pool) {}
UnitOfWork_ctor(acq, ok) == [tx_ |-> Transaction_ctor(acq, ok)]

\* Mutant of UnitOfWork_commit: tx_.commit() is not called.
UnitOfWork_commit_Nothing(u, ok) == u

\* void commit() { tx_.commit(); }
UnitOfWork_commit(u, ok) == [u EXCEPT !.tx_ = Transaction_commit(@, ok)]

\* void rollback() { tx_.rollback(); }
UnitOfWork_rollback(u, ok) == [u EXCEPT !.tx_ = Transaction_rollback(@, ok)]

\* The implicit destructor destroys the member tx_.
UnitOfWork_dtor(u, ok) == [u EXCEPT !.tx_ = Transaction_dtor(@, ok)]

\* commit() and rollback() calls made on the Transaction since its construction.
ApiCalls(x) ==
  Cardinality({k \in 3..Len(x.calls) : x.calls[k][1] \in {"commit", "rollback"}})

\* Both objects are constructed; acquire and begin() have the same outcome
\* for both.
UowConstruct(acq, ok) ==
  /\ bare.st # "alive"
  /\ uow' = UnitOfWork_ctor(acq, ok)
  /\ bare' = Transaction_ctor(acq, ok)
  /\ UNCHANGED <<poolVars, thrVars, txVars, hist, migVars, splitVars, shaVars, ccVars>>

\* commit() is called on both; the connection's commit() has the same
\* outcome for both.
UowCommit(ok) ==
  /\ bare.st = "alive"
  /\ ApiCalls(bare) < MaxCalls
  /\ uow' = UnitOfWork_commit(uow, ok)
  /\ bare' = Transaction_commit(bare, ok)
  /\ UNCHANGED <<poolVars, thrVars, txVars, hist, migVars, splitVars, shaVars, ccVars>>

\* rollback() is called on both.
UowRollback(ok) ==
  /\ bare.st = "alive"
  /\ ApiCalls(bare) < MaxCalls
  /\ uow' = UnitOfWork_rollback(uow, ok)
  /\ bare' = Transaction_rollback(bare, ok)
  /\ UNCHANGED <<poolVars, thrVars, txVars, hist, migVars, splitVars, shaVars, ccVars>>

\* Both objects are destroyed.
UowDestroy(ok) ==
  /\ bare.st = "alive"
  /\ uow' = UnitOfWork_dtor(uow, ok)
  /\ bare' = Transaction_dtor(bare, ok)
  /\ UNCHANGED <<poolVars, thrVars, txVars, hist, migVars, splitVars, shaVars, ccVars>>

NextUow ==
  \E acq \in BOOLEAN, ok \in BOOLEAN :
    \/ UowConstruct(acq, ok)
    \/ UowCommit(ok)
    \/ UowRollback(ok)
    \/ UowDestroy(ok)

\* A pool on which nothing else happens.
InitUowOnly ==
  /\ cfg = [min |-> 0, max |-> 1]
  /\ InitPool
  /\ InitMigration
  /\ InitFn

SpecUow == InitUowOnly /\ [][NextUow]_vars

\* ----------------------------------------------------------------- Sha256
\* The bytes an input is made of.
Bytes == {\H61, \HFF}

\* Every input of at most MaxBytes bytes, one input that leaves no room for
\* the length in its block, and one that fills a block.
Inputs ==
  UNION {[1..n -> Bytes] : n \in 0..MaxBytes}
    \cup {[i \in 1..n |-> \H61] : n \in {56, 64}}

\* The function f on 1..n as a tuple, its elements computed.
Eager(f) == f \o <<>>

\* A std::uint32_t is the tuple of its 32 bits, most significant first.
\* The w lowest bits of n, most significant first.
BitsOf(n, w) == Eager([k \in 1..w |-> (n \div 2^(w - k)) % 2])

\* The number the 16 bits of x from index from on stand for.
ValueOf(x, from) ==
    x[from] * 32768 + x[from + 1] * 16384 + x[from + 2] * 8192 + x[from + 3] * 4096
  + x[from + 4] * 2048 + x[from + 5] * 1024 + x[from + 6] * 512 + x[from + 7] * 256
  + x[from + 8] * 128 + x[from + 9] * 64 + x[from + 10] * 32 + x[from + 11] * 16
  + x[from + 12] * 8 + x[from + 13] * 4 + x[from + 14] * 2 + x[from + 15]

\* The std::uint32_t written as two 16-bit halves.
Word(hl) == BitsOf(hl[1], 16) \o BitsOf(hl[2], 16)

\* The round constants, each as its high and low 16 bits.
K ==
  <<
  <<\H428a, \H2f98>>, <<\H7137, \H4491>>, <<\Hb5c0, \Hfbcf>>, <<\He9b5, \Hdba5>>,
  <<\H3956, \Hc25b>>, <<\H59f1, \H11f1>>, <<\H923f, \H82a4>>, <<\Hab1c, \H5ed5>>,
  <<\Hd807, \Haa98>>, <<\H1283, \H5b01>>, <<\H2431, \H85be>>, <<\H550c, \H7dc3>>,
  <<\H72be, \H5d74>>, <<\H80de, \Hb1fe>>, <<\H9bdc, \H06a7>>, <<\Hc19b, \Hf174>>,
  <<\He49b, \H69c1>>, <<\Hefbe, \H4786>>, <<\H0fc1, \H9dc6>>, <<\H240c, \Ha1cc>>,
  <<\H2de9, \H2c6f>>, <<\H4a74, \H84aa>>, <<\H5cb0, \Ha9dc>>, <<\H76f9, \H88da>>,
  <<\H983e, \H5152>>, <<\Ha831, \Hc66d>>, <<\Hb003, \H27c8>>, <<\Hbf59, \H7fc7>>,
  <<\Hc6e0, \H0bf3>>, <<\Hd5a7, \H9147>>, <<\H06ca, \H6351>>, <<\H1429, \H2967>>,
  <<\H27b7, \H0a85>>, <<\H2e1b, \H2138>>, <<\H4d2c, \H6dfc>>, <<\H5338, \H0d13>>,
  <<\H650a, \H7354>>, <<\H766a, \H0abb>>, <<\H81c2, \Hc92e>>, <<\H9272, \H2c85>>,
  <<\Ha2bf, \He8a1>>, <<\Ha81a, \H664b>>, <<\Hc24b, \H8b70>>, <<\Hc76c, \H51a3>>,
  <<\Hd192, \He819>>, <<\Hd699, \H0624>>, <<\Hf40e, \H3585>>, <<\H106a, \Ha070>>,
  <<\H19a4, \Hc116>>, <<\H1e37, \H6c08>>, <<\H2748, \H774c>>, <<\H34b0, \Hbcb5>>,
  <<\H391c, \H0cb3>>, <<\H4ed8, \Haa4a>>, <<\H5b9c, \Hca4f>>, <<\H682e, \H6ff3>>,
  <<\H748f, \H82ee>>, <<\H78a5, \H636f>>, <<\H84c8, \H7814>>, <<\H8cc7, \H0208>>,
  <<\H90be, \Hfffa>>, <<\Ha450, \H6ceb>>, <<\Hbef9, \Ha3f7>>, <<\Hc671, \H78f2>>
  >>

\* x >> n
shr(x, n) == Eager([k \in 1..32 |-> IF k <= n THEN 0 ELSE x[k - n]])

\* rotr: (x >> n) | (x << (32 - n))
rotr(x, n) == Eager([k \in 1..32 |-> x[((k - 1 - n + 32) % 32) + 1]])

\* x ^ y
xor(x, y) == Eager([k \in 1..32 |-> (x[k] + y[k]) % 2])

\* x & y
and(x, y) == Eager([k \in 1..32 |-> x[k] * y[k]])

\* ~x
not(x) == Eager([k \in 1..32 |-> 1 - x[k]])

\* x + y on std::uint32_t: the sum modulo 2^32, low halves first, the carry
\* added to the high halves.
add(x, y) ==
  LET lo == ValueOf(x, 17) + ValueOf(y, 17)
      hi == ValueOf(x, 1) + ValueOf(y, 1) + lo \div 65536
  IN BitsOf(hi % 65536, 16) \o BitsOf(lo % 65536, 16)

ch(x, y, z) == xor(and(x, y), and(not(x), z))
maj(x, y, z) == xor(xor(and(x, y), and(x, z)), and(y, z))
s0(x) == xor(xor(rotr(x, 7), rotr(x, 18)), shr(x, 3))
s1(x) == xor(xor(rotr(x, 17), rotr(x, 19)), shr(x, 10))
S0(x) == xor(xor(rotr(x, 2), rotr(x, 13)), rotr(x, 22))
S1(x) == xor(xor(rotr(x, 6), rotr(x, 11)), rotr(x, 25))

\* The first loop of transform: m[0..15], here m[1..16], read big-endian from
\* the block.
load(block) ==
  Eager([i \in 1..16 |->
           BitsOf(block[4 * i - 3], 8) \o BitsOf(block[4 * i - 2], 8)
             \o BitsOf(block[4 * i - 1], 8) \o BitsOf(block[4 * i], 8)])

\* m[i] = s1(m[i - 2]) + m[i - 7] + s0(m[i - 15]) + m[i - 16]
schedule_word(mm, i) ==
  add(add(add(s1(mm[i - 2]), mm[i - 7]), s0(mm[i - 15])), mm[i - 16])

\* One iteration of the third loop of transform on the working variables
\* v = <<a, b, c, d, e, f, g, h>>, with round constant k and schedule word w.
round(v, k, w) ==
  LET t1 == add(add(add(add(v[8], S1(v[5])), ch(v[5], v[6], v[7])), k), w)
      t2 == add(S0(v[1]), maj(v[1], v[2], v[3]))
  IN <<add(t1, t2), v[1], v[2], v[3], add(v[4], t1), v[5], v[6], v[7]>>

\* Sha256::reset
reset(x) ==
  [x EXCEPT !.bitlen_ = 0,
            !.buffer_len_ = 0,
            !.state_ = [i \in 1..8 |-> Word(
              <<<<\H6a09, \He667>>, <<\Hbb67, \Hae85>>, <<\H3c6e, \Hf372>>, <<\Ha54f, \Hf53a>>,
    <<\H510e, \H527f>>, <<\H9b05, \H688c>>, <<\H1f83, \Hd9ab>>, <<\H5be0, \Hcd19>>>>[i])]]

RECURSIVE shr8(_, _)
\* n >> (i * 8) on std::uint64_t.
shr8(n, i) == IF i = 0 THEN n ELSE shr8(n \div 256, i - 1)

\* buffer_ with zeros written from index from (counted from 0) up to, not
\* including, index to.
zero_fill(buf, from, to) ==
  Eager([i \in 1..64 |-> IF from < i /\ i <= to THEN 0 ELSE buf[i]])

\* The last 8 bytes of the final block: total_bits big-endian, after zeros
\* from index n (counted from 0) to 55.
length_block(buf, n, bitcount) ==
  Eager([i \in 1..64 |->
           IF i > 56 THEN shr8(bitcount, 64 - i) % 256
           ELSE IF n < i THEN 0 ELSE buf[i]])

\* The array returned by Sha256::digest: the bytes of state_[0..7], each word
\* most significant byte first.
digest_out(x) ==
  [j \in 1..32 |->
     LET w == x.state_[((j - 1) \div 4) + 1]
         o == (j - 1) % 4
     IN ValueOf(<<0, 0, 0, 0, 0, 0, 0, 0>> \o SubSeq(w, 8 * o + 1, 8 * o + 8), 1)]

\* static constexpr const char *H = "0123456789abcdef";
H == <<"0", "1", "2", "3", "4", "5", "6", "7", "8", "9", "a", "b", "c", "d", "e", "f">>

\* Sha256::hex: two characters of H per byte, high nibble first.
hex(dd) ==
  [j \in 1..64 |->
     LET b == dd[((j - 1) \div 2) + 1]
     IN IF j % 2 = 1 THEN H[((b \div 16) % 16) + 1] ELSE H[(b % 16) + 1]]

\* Mutant of ShaCtor: the constructor does not call reset().
ShaCtor_NoReset ==
  /\ shaPc = "ctor"
  /\ hasher' = Fresh
  /\ ui' = 1
  /\ shaPc' = "update"
  /\ UNCHANGED <<data, msched, wv, ti, ret, total_bits, dig, hexes>>
  /\ UNCHANGED <<poolVars, thrVars, txVars, hist, migVars, splitVars, uowVars, ccVars>>

\* sha256_hex: Sha256 h;  a new object, whose constructor calls reset().
ShaCtor ==
  /\ shaPc = "ctor"
  /\ hasher' = reset(Fresh)
  /\ ui' = 1
  /\ shaPc' = "update"
  /\ UNCHANGED <<data, msched, wv, ti, ret, total_bits, dig, hexes>>
  /\ UNCHANGED <<poolVars, thrVars, txVars, hist, migVars, splitVars, uowVars, ccVars>>

\* One iteration of the loop of update: buffer_[buffer_len_++] = p[i]; a full
\* buffer is transformed.
ShaUpdate ==
  /\ shaPc = "update"
  /\ ui <= Len(data)
  /\ hasher' = [hasher EXCEPT !.buffer_[hasher.buffer_len_ + 1] = data[ui],
                              !.buffer_len_ = @ + 1]
  /\ ui' = ui + 1
  /\ IF hasher.buffer_len_ + 1 = 64
       THEN shaPc' = "load" /\ ret' = "update"
       ELSE UNCHANGED <<shaPc, ret>>
  /\ UNCHANGED <<data, msched, wv, ti, total_bits, dig, hexes>>
  /\ UNCHANGED <<poolVars, thrVars, txVars, hist, migVars, splitVars, uowVars, ccVars>>

\* digest() up to its first call of transform: total_bits, the byte 0x80,
\* then either zeros to the end of the block (more than 56 bytes used), or
\* zeros up to 56 and the length.
ShaDigestPad ==
  /\ shaPc = "update"
  /\ ui > Len(data)
  /\ LET bitcount == hasher.bitlen_ + hasher.buffer_len_ * 8
         buf == [hasher.buffer_ EXCEPT ![hasher.buffer_len_ + 1] = \H80]
         n == hasher.buffer_len_ + 1
     IN /\ total_bits' = bitcount
        /\ IF n > 56
             THEN /\ hasher' = [hasher EXCEPT !.buffer_ = zero_fill(buf, n, 64),
                                              !.buffer_len_ = 64]
                  /\ ret' = "digest_spill"
             ELSE /\ hasher' = [hasher EXCEPT !.buffer_ = length_block(buf, n, bitcount),
                                              !.buffer_len_ = 64]
                  /\ ret' = "digest"
  /\ shaPc' = "load"
  /\ UNCHANGED <<data, ui, msched, wv, ti, dig, hexes>>
  /\ UNCHANGED <<poolVars, thrVars, txVars, hist, migVars, splitVars, uowVars, ccVars>>

\* transform, first loop.
TransformLoad ==
  /\ shaPc = "load"
  /\ msched' = load(hasher.buffer_)
  /\ ti' = 17
  /\ shaPc' = "schedule"
  /\ UNCHANGED <<data, hasher, ui, wv, ret, total_bits, dig, hexes>>
  /\ UNCHANGED <<poolVars, thrVars, txVars, hist, migVars, splitVars, uowVars, ccVars>>

\* transform, one iteration of the second loop.
TransformSchedule ==
  /\ shaPc = "schedule"
  /\ ti <= 64
  /\ msched' = Append(msched, schedule_word(msched, ti))
  /\ ti' = ti + 1
  /\ UNCHANGED <<data, hasher, ui, wv, ret, total_bits, dig, hexes, shaPc>>
  /\ UNCHANGED <<poolVars, thrVars, txVars, hist, migVars, splitVars, uowVars, ccVars>>

\* transform: a..h are initialised from state_.
TransformVars ==
  /\ shaPc = "schedule"
  /\ ti > 64
  /\ wv' = hasher.state_
  /\ ti' = 1
  /\ shaPc' = "round"
  /\ UNCHANGED <<data, hasher, ui, msched, ret, total_bits, dig, hexes>>
  /\ UNCHANGED <<poolVars, thrVars, txVars, hist, migVars, splitVars, uowVars, ccVars>>

\* transform, one iteration of the third loop.
TransformRound ==
  /\ shaPc = "round"
  /\ ti <= 64
  /\ wv' = round(wv, Word(K[ti]), msched[ti])
  /\ ti' = ti + 1
  /\ UNCHANGED <<data, hasher, ui, msched, ret, total_bits, dig, hexes, shaPc>>
  /\ UNCHANGED <<poolVars, thrVars, txVars, hist, migVars, splitVars, uowVars, ccVars>>

\* transform: state_[i] += a..h, and the caller goes on: update() counts the
\* block and empties the buffer; digest(), after the block without room for
\* the length, fills a second block with zeros and the length and transforms
\* it; after the last block digest() writes out.
TransformReturn ==
  /\ shaPc = "round"
  /\ ti > 64
  /\ LET sum == Eager([i \in 1..8 |-> add(hasher.state_[i], wv[i])]) IN
       CASE ret = "update" ->
              /\ hasher' = [hasher EXCEPT !.state_ = sum, !.bitlen_ = @ + 512,
                                          !.buffer_len_ = 0]
              /\ shaPc' = "update"
              /\ ret' = "none"
         [] ret = "digest_spill" ->
              /\ hasher' = [hasher EXCEPT !.state_ = sum,
                                          !.buffer_ = length_block(@, 0, total_bits),
                                          !.buffer_len_ = 64]
              /\ shaPc' = "load"
              /\ ret' = "digest"
         [] OTHER ->
              /\ hasher' = [hasher EXCEPT !.state_ = sum]
              /\ shaPc' = "out"
              /\ ret' = "none"
  /\ UNCHANGED <<data, ui, msched, wv, ti, total_bits, dig, hexes>>
  /\ UNCHANGED <<poolVars, thrVars, txVars, hist, migVars, splitVars, uowVars, ccVars>>

\* digest(): the bytes of state_ are written to out and returned.
ShaDigestOut ==
  /\ shaPc = "out"
  /\ dig' = digest_out(hasher)
  /\ shaPc' = "hex"
  /\ UNCHANGED <<data, hasher, ui, msched, wv, ti, ret, total_bits, hexes>>
  /\ UNCHANGED <<poolVars, thrVars, txVars, hist, migVars, splitVars, uowVars, ccVars>>

\* Sha256::hex(h.digest()) is returned; the same bytes are then hashed a
\* second time.
ShaHex ==
  /\ shaPc = "hex"
  /\ hexes' = Append(hexes, hex(dig))
  /\ shaPc' = IF hexes = <<>> THEN "ctor" ELSE "done"
  /\ UNCHANGED <<data, hasher, ui, msched, wv, ti, ret, total_bits, dig>>
  /\ UNCHANGED <<poolVars, thrVars, txVars, hist, migVars, splitVars, uowVars, ccVars>>

NextSha ==
  \/ ShaCtor
  \/ ShaUpdate
  \/ ShaDigestPad
  \/ TransformLoad
  \/ TransformSchedule
  \/ TransformVars
  \/ TransformRound
  \/ TransformReturn
  \/ ShaDigestOut
  \/ ShaHex

\* sha256_hex has been called on some input.
InitShaCall ==
  /\ cfg = [min |-> 0, max |-> 1]
  /\ InitPool
  /\ InitMigration
  /\ InitSplit
  /\ InitUow
  /\ InitRunners
  /\ data \in Inputs
  /\ hasher = Fresh
  /\ shaPc = "ctor"
  /\ ui = 1
  /\ msched = <<>>
  /\ wv = <<>>
  /\ ti = 0
  /\ ret = "none"
  /\ total_bits = 0
  /\ dig = <<>>
  /\ hexes = <<>>

SpecSha == InitShaCall /\ [][NextSha]_vars

\* ------------------------------------------- two runners on one database
Runners == {1, 2}

\* The other runner.
Other(r) == CHOOSE q \in Runners : q # r

\* A runner on which applyAll() has not been called.
IdleRunner == [pc |-> "idle", pairs |-> <<>>, ri |-> 0, rk |-> 0, m |-> NoPair]

\* scanPairs() on the shared directory, in which every up file has its down file.
scanShared ==
  SortById({[id |-> i, up_checksum |-> up_checksum(shared.dir[i]), down |-> TRUE] :
              i \in {j \in Ids : shared.dir[j] # NoFile}})

\* What SELECT checksum ... WHERE id = ? returns on runner r's connection:
\* the committed record, or the record r inserted in its open transaction.
Visible(r, id) ==
  IF shared.pend[r][id] # NoRec THEN shared.pend[r][id] ELSE shared.rec[id]

\* The pair runner r's loop is at.
AtPair(r) == runner[r].pairs[runner[r].ri]

\* The runner's state changes and the rest of the model does not.
RunnerStep(r, st, sh) ==
  /\ runner' = [runner EXCEPT ![r] = st]
  /\ shared' = sh
  /\ UNCHANGED <<poolVars, thrVars, txVars, hist, migVars, splitVars, uowVars, shaVars>>

\* applyAll(): ensureTable(); pairs = scanPairs().
RunEnter(r) ==
  /\ runner[r].pc = "idle"
  /\ RunnerStep(r, [runner[r] EXCEPT !.pc = "loop", !.pairs = scanShared, !.ri = 1], shared)

\* The pair has a record with the same checksum; continue.
RunSkip(r) ==
  /\ runner[r].pc = "loop"
  /\ runner[r].ri <= Len(runner[r].pairs)
  /\ Visible(r, AtPair(r).id) # NoRec
  /\ Visible(r, AtPair(r).id) = AtPair(r).up_checksum
  /\ RunnerStep(r, [runner[r] EXCEPT !.ri = @ + 1], shared)

\* The pair has a record with another checksum; throw DBError.
RunDrift(r) ==
  /\ runner[r].pc = "loop"
  /\ runner[r].ri <= Len(runner[r].pairs)
  /\ Visible(r, AtPair(r).id) # NoRec
  /\ Visible(r, AtPair(r).id) # AtPair(r).up_checksum
  /\ RunnerStep(r, [runner[r] EXCEPT !.pc = "threw"], shared)

\* The loop is over; applyAll() returns.
RunReturn(r) ==
  /\ runner[r].pc = "loop"
  /\ runner[r].ri > Len(runner[r].pairs)
  /\ RunnerStep(r, [runner[r] EXCEPT !.pc = "returned"], shared)

\* Mutant of RunBegin: a runner waits while the other runner is applying the same migration.
RunBegin_Serialised(r, ok) ==
  /\ runner[r].pc = "loop"
  /\ runner[r].ri <= Len(runner[r].pairs)
  /\ Visible(r, AtPair(r).id) = NoRec
  /\ ~(runner[Other(r)].pc \in {"exec", "commit", "catch"} /\ runner[Other(r)].m.id = AtPair(r).id)
  /\ RunnerStep(r, [runner[r] EXCEPT !.m = AtPair(r), !.rk = 1,
                                     !.pc = IF ok THEN "exec" ELSE "catch"], shared)

\* The pair has no record: try { conn_.begin(); ...
RunBegin(r, ok) ==
  /\ runner[r].pc = "loop"
  /\ runner[r].ri <= Len(runner[r].pairs)
  /\ Visible(r, AtPair(r).id) = NoRec
  /\ RunnerStep(r, [runner[r] EXCEPT !.m = AtPair(r), !.rk = 1,
                                     !.pc = IF ok THEN "exec" ELSE "catch"], shared)

\* execScript(readFileText(m.up_path)): the next statement of the up-script.
RunExec(r, ok) ==
  /\ runner[r].pc = "exec"
  /\ runner[r].rk <= Len(shared.dir[runner[r].m.id])
  /\ IF ok
       THEN RunnerStep(r, [runner[r] EXCEPT !.rk = @ + 1],
                       [shared EXCEPT !.ran[r][runner[r].m.id] = @ + 1])
       ELSE RunnerStep(r, [runner[r] EXCEPT !.pc = "catch"], shared)

\* markApplied(m.id, m.up_checksum): the INSERT waits for an uncommitted
\* insert of the same primary key, and fails when the key is committed.
RunMark(r, ok) ==
  /\ runner[r].pc = "exec"
  /\ ~(runner[r].rk <= Len(shared.dir[runner[r].m.id]))
  /\ shared.pend[Other(r)][runner[r].m.id] = NoRec
  /\ ok => shared.rec[runner[r].m.id] = NoRec
  /\ IF ok
       THEN RunnerStep(r, [runner[r] EXCEPT !.pc = "commit"],
                       [shared EXCEPT !.pend[r][runner[r].m.id] = runner[r].m.up_checksum])
       ELSE RunnerStep(r, [runner[r] EXCEPT !.pc = "catch"], shared)

\* conn_.commit(); on success the loop goes on with the next pair.
RunCommit(r, ok) ==
  /\ runner[r].pc = "commit"
  /\ IF ok
       THEN RunnerStep(r, [runner[r] EXCEPT !.pc = "loop", !.ri = @ + 1, !.rk = 0, !.m = NoPair],
                       [shared EXCEPT !.rec = [i \in Ids |-> Visible(r, i)],
                                      !.pend[r] = [i \in Ids |-> NoRec]])
       ELSE RunnerStep(r, [runner[r] EXCEPT !.pc = "catch"], shared)

\* catch (...) { try { conn_.rollback(); } catch (...) {} throw; }
RunCatch(r, ok) ==
  /\ runner[r].pc = "catch"
  /\ RunnerStep(r, [runner[r] EXCEPT !.pc = "threw"],
                [shared EXCEPT !.pend[r] = [i \in Ids |-> NoRec]])

NextRunners ==
  \E r \in Runners :
    \/ RunEnter(r)
    \/ RunSkip(r)
    \/ RunDrift(r)
    \/ RunReturn(r)
    \/ \E ok \in BOOLEAN :
         \/ RunBegin(r, ok)
         \/ RunExec(r, ok)
         \/ RunMark(r, ok)
         \/ RunCommit(r, ok)
         \/ RunCatch(r, ok)

\* Two runners about to call applyAll() on a directory of pairs and a
\* tracking table holding records of earlier runs.
InitTwoRunners ==
  /\ cfg = [min |-> 0, max |-> 1]
  /\ InitPool
  /\ InitMigration
  /\ InitSplit
  /\ InitUow
  /\ InitSha
  /\ runner = [r \in Runners |-> IdleRunner]
  /\ \E d \in [Ids -> Scripts \cup {NoFile}],
        c \in [Ids -> {NoRec} \cup {up_checksum(s) : s \in Scripts}] :
       shared = [dir |-> d, rec |-> c,
                 pend |-> [r \in Runners |-> [i \in Ids |-> NoRec]],
                 ran |-> [r \in Runners |-> [i \in Ids |-> 0]]]

SpecRunners == InitTwoRunners /\ [][NextRunners]_vars

\* ------------------------------------------------------------- the claims
RECURSIVE SumCard(_, _)
SumCard(f, S) ==
  IF S = {} THEN 0
  ELSE LET t == CHOOSE x \in S : TRUE IN Cardinality(f[t]) + SumCard(f, S \ {t})

\* Connections currently borrowed: obtained directly, or held by a guard.
Borrowed == SumCard(held, Threads) + Cardinality({t \in Threads : gconn[t] # Null})

\* No pool call is in progress.
Quiescent == \A t \in Threads : pc[t] = "idle"

\* Thread t holds connection c.
Holds(t, c) == c \in held[t] \/ gconn[t] = c

\* Positions of c in the idle queue.
InIdle(c) == {i \in 1..Len(idle) : idle[i] = c}

\* C1: idle.size() <= total <= cfg.max at every instant, for every interleaving
\* of acquire(), release() and warmup().
C1_IdleTotalMax == Len(idle) <= total /\ total <= cfg.max

\* C2: between acquire()/release() calls, idle.size() plus the number of
\* borrowed connections equals total, and total <= max.
C2_PoolBound ==
  Quiescent => (Len(idle) + Borrowed = total /\ total <= cfg.max)

\* C3: when the factory fails inside acquire(), the increment of total is
\* undone by the time the call has failed.
C3_FactoryFailureCompensated ==
  [][\A t \in Threads :
       (pc[t] = "factory" /\ pc'[t] = "idle" /\ held'[t] = held[t] /\ gconn'[t] = gconn[t])
         => total' = total - 1]_vars

\* C4: with max = 1 at most one caller has a connection at any time, so a
\* second acquire() does not return while the first guard is alive; a waiter
\* returns only with the connection the first guard put back, when nobody
\* holds it; and once it is back in the idle queue a blocked acquire() does
\* not stay blocked with the connection left idle.
C4_BlockingMaxOne ==
  /\ [](cfg.max = 1 => Borrowed <= 1 /\ nextId <= 1)
  /\ [][\A t \in Threads :
          (cfg.max = 1 /\ pc[t] = "woken" /\ pc'[t] = "idle")
            => (/\ Borrowed = 0
                /\ idle # <<>>
                /\ (Head(idle) \in held'[t] \/ gconn'[t] = Head(idle))
                /\ idle' = Tail(idle))]_vars
  /\ \A t \in Threads :
       (cfg.max = 1 /\ pc[t] \in {"wait", "woken"} /\ idle # <<>>)
         ~> (pc[t] = "idle" \/ idle = <<>>)

\* The first guard has been destroyed and its release() has notified; the
\* second acquire(), which had blocked, is woken with the connection idle.
C4_Witness ==
  /\ cfg.max = 1
  /\ \E t, u \in Threads :
       /\ t # u
       /\ pc[t] = "woken"
       /\ idle = <<1>>
       /\ pc[u] = "idle"
       /\ gconn[u] = Null

\* Factory invocations among the completed calls h.
FactoryCallsIn(h) == Cardinality({i \in 1..Len(h) : h[i][2] = "factory"})

\* The pool's one caller has completed acquire(); release(c); acquire().
AcquireReleaseAcquire ==
  /\ hist.who \in Threads
  /\ pc[hist.who] = "idle"
  /\ Len(hist.calls) = 3
  /\ hist.calls[1][1] = "acquire"
  /\ hist.calls[2][1] = "release"
  /\ hist.calls[2][3] = hist.calls[1][3]
  /\ hist.calls[3][1] = "acquire"

\* C5: single-threaded acquire(); release(c); acquire() calls the factory
\* once: the second acquire() returns c from the idle queue and total is 1.
C5_Reuse ==
  AcquireReleaseAcquire =>
    /\ hist.calls[3][3] = hist.calls[1][3]
    /\ hist.calls[3][2] = "idle"
    /\ FactoryCallsIn(hist.calls) = 1
    /\ total = 1

C5_Witness == AcquireReleaseAcquire /\ Holds(hist.who, hist.calls[1][3])

\* warmup() returns normally in this step of thread t.
WarmupReturns(t) == pc[t] = "warmup" /\ ~(wi[t] < cfg.min) /\ pc'[t] = "idle"

\* C6 as stated: after warmup() the idle queue holds exactly min connections
\* and total == min.
C6_WarmupExact ==
  [][\A t \in Threads :
       WarmupReturns(t) => (Len(idle') = cfg.min /\ total' = cfg.min)]_vars

\* C6 as amended: when warmup() returns normally, the idle queue holds min
\* more connections and total is min greater than when warmup() took the
\* lock; on a pool that was empty then, both equal min.
C6_WarmupAddsMin ==
  [][\A t \in Threads :
       WarmupReturns(t) =>
         /\ Len(idle') = w0[t][1] + cfg.min
         /\ total' = w0[t][2] + cfg.min
         /\ (w0[t] = <<0, 0>> => (Len(idle') = cfg.min /\ total' = cfg.min))]_vars

\* warmup() is about to return on a pool that had connections before it.
C6_Witness ==
  \E t \in Threads :
    pc[t] = "warmup" /\ wi[t] = cfg.min /\ cfg.min > 0 /\ w0[t][2] > 0

\* C7: a guard's connection is in no other place while the guard is alive,
\* and the step that destroys the guard, on either exit path, pushes the
\* connection onto the idle queue exactly once.
C7_GuardReleasesOnce ==
  /\ [](\A t \in Threads :
          gconn[t] # Null =>
            /\ InIdle(gconn[t]) = {}
            /\ \A u \in Threads : u # t => ~Holds(u, gconn[t])
            /\ gconn[t] \notin held[t])
  /\ [](\A c \in 1..nextId : Cardinality(InIdle(c)) <= 1)
  /\ [][\A t \in Threads :
          (gconn[t] # Null /\ gconn'[t] = Null) => idle' = Append(idle, gconn[t])]_vars

\* A guard was destroyed by exception unwinding and its connection is idle.
C7_Witness ==
  /\ hist.calls # <<>>
  /\ hist.calls[Len(hist.calls)][1] = "release"
  /\ hist.calls[Len(hist.calls)][2] = "unwind"
  /\ InIdle(hist.calls[Len(hist.calls)][3]) # {}

\* C8: a Transaction destroyed without commit() or rollback() has called
\* rollback() on its connection exactly once, and no exception left the
\* destructor, also when that rollback() failed.
C8_DtorRollsBackOnce ==
  \A t \in Threads :
    (txst[t] = "destroyed" /\ api[t] = <<>>) =>
      /\ Len(txLog[t]) = 2
      /\ txLog[t][1] = <<"begin", TRUE>>
      /\ txLog[t][2][1] = "rollback"
      /\ ~dtorThrew[t]

\* The destructor's rollback() failed.
C8_Witness ==
  \E t \in Threads :
    txst[t] = "destroyed" /\ api[t] = <<>> /\ txLog[t][2] = <<"rollback", FALSE>>

\* C9: after a successful commit() the Transaction is not active, and when it
\* is destroyed the calls made on the connection are begin() then commit().
C9_CommitIsTerminal ==
  \A t \in Threads :
    (txst[t] \in {"alive", "destroyed"} /\ api[t] = << <<"commit", TRUE>> >>) =>
      /\ ~active[t]
      /\ txLog[t] = << <<"begin", TRUE>>, <<"commit", TRUE>> >>

C9_Witness ==
  \E t \in Threads : txst[t] = "destroyed" /\ api[t] = << <<"commit", TRUE>> >>

\* C10: a rollback() call made after the Transaction reached a terminal state
\* (an earlier commit() or rollback() succeeded) makes no call on the
\* connection.
C10_RollbackNotReexecuted ==
  \A t \in Threads :
    (/\ txst[t] = "alive"
     /\ \E i \in 1..Len(api[t]) :
          api[t][i][1] = "rollback" /\ \E j \in 1..(i - 1) : api[t][j][2])
      => Len(txLog[t]) < 1 + Len(api[t])

\* C11: when the connection's commit() fails inside Transaction::commit(),
\* the failure reaches the caller and the Transaction stays active; destroyed
\* with no further call, it has called rollback() on the connection once, after
\* the failed commit(), and no exception left the destructor.
C11_FailedCommitStaysActive ==
  \A t \in Threads :
    (api[t] = << <<"commit", FALSE>> >>) =>
      /\ txst[t] = "alive" => (active[t] /\ txLog[t] = << <<"begin", TRUE>>, <<"commit", FALSE>> >>)
      /\ txst[t] = "destroyed" =>
            /\ Len(txLog[t]) = 3
            /\ txLog[t][1] = <<"begin", TRUE>>
            /\ txLog[t][2] = <<"commit", FALSE>>
            /\ txLog[t][3][1] = "rollback"
            /\ ~dtorThrew[t]

\* A Transaction whose only call was a failed commit() has been destroyed.
C11_Witness ==
  \E t \in Threads : txst[t] = "destroyed" /\ api[t] = << <<"commit", FALSE>> >>

\* C12: an applyAll() that directly follows an applyAll() that returned, with
\* the directory unchanged between them, begins no transaction, executes no
\* statement, inserts no record (it makes no call inside a try block and the
\* tracking table stays as it was) and raises no error.
C12_IdempotentApply ==
  (op = "applyAll" /\ again) =>
    /\ log = <<>>
    /\ res \in {"running", "ok"}
    /\ crec = rec0
    /\ wrec = rec0

\* The second applyAll() has returned on a directory whose pairs are all recorded.
C12_Witness ==
  /\ op = "applyAll"
  /\ again
  /\ res = "ok"
  /\ \A i \in Ids : up[i] # NoFile /\ crec[i] = up_checksum(up[i])

\* Ids whose record, when the call started, has another checksum than the
\* up-script now on disk.
Drifted ==
  {i \in Ids : up[i] # NoFile /\ rec0[i] # NoRec /\ rec0[i] # up_checksum(up[i])}

\* Ids on which the call has made a call inside a try block.
Touched == {log[j][2] : j \in 1..Len(log)}

\* Some call on conn_ failed during the call.
SomeCallFailed == \E j \in 1..Len(log) : ~log[j][4]

\* C13: when a recorded migration's checksum differs from the checksum of its
\* up-script on disk, applyAll() does not return normally, and it ends with the
\* drift error unless applying an earlier pending migration failed first; no
\* statement of the drifted migration is executed, its record is unchanged,
\* and nothing is done for any migration with a greater id.
C13_DriftStops ==
  (op = "applyAll" /\ Drifted # {}) =>
    /\ res \in {"running", "drift"} \cup StepErrors
    /\ res \in StepErrors => SomeCallFailed
    /\ \A d \in Drifted :
         /\ d \notin Touched
         /\ crec[d] = rec0[d]
         /\ wrec[d] = rec0[d]
         /\ \A j \in Ids : j > d => (j \notin Touched /\ crec[j] = rec0[j] /\ wrec[j] = rec0[j])

\* applyAll() threw the drift error while a migration with a greater id is pending.
C13_Witness ==
  /\ op = "applyAll"
  /\ res = "drift"
  /\ \E d \in Drifted : \E j \in Ids : j > d /\ up[j] # NoFile /\ crec[j] = NoRec

\* The calls that apply migration i: begin(), the statements of its up-script
\* in file order, the insert of (i, checksum of the up-script), commit().
ApplyBlock(i) ==
  << <<"begin", i, 0, TRUE>> >>
    \o [k \in 1..Len(up[i]) |-> <<"exec", i, up[i][k], TRUE>>]
    \o << <<"insert", i, up_checksum(up[i]), TRUE>>, <<"commit", i, 0, TRUE>> >>

\* The blocks of the ids in S, in ascending id order.
RECURSIVE ApplyBlocks(_)
ApplyBlocks(S) ==
  IF S = {} THEN <<>>
  ELSE LET a == CHOOSE x \in S : \A y \in S : x <= y
       IN ApplyBlock(a) \o ApplyBlocks(S \ {a})

\* Pairs that had no record when the call started and come before every
\* drifted pair.
PendingIds ==
  {i \in Ids : up[i] # NoFile /\ rec0[i] = NoRec /\ \A d \in Drifted : i < d}

\* C14: the calls applyAll() makes on the connection are the blocks begin(),
\* statements in file order, insert (id, up-checksum), commit() of the pairs
\* without record, in ascending id order: every call that succeeded is the
\* call at that position, a failed call is an attempt of the call at that
\* position and is followed by the catch block's rollback() only, a call that
\* returns has made all of them, and when the next pair is examined no
\* transaction is open and nothing is uncommitted.
C14_ApplyOrder ==
  op = "applyAll" =>
    LET E == ApplyBlocks(PendingIds) IN
      /\ \A j \in 1..Len(log) :
           \/ (j <= Len(E) /\ log[j] = E[j])
           \/ (/\ j <= Len(E)
               /\ log[j] = <<E[j][1], E[j][2], E[j][3], FALSE>>
               /\ Len(log) <= j + 1)
           \/ (/\ j = Len(log)
               /\ j > 1
               /\ ~log[j - 1][4]
               /\ log[j][1] = "rollback"
               /\ log[j][2] = log[j - 1][2])
      /\ res = "ok" => log = E
      /\ rpc = "apply_loop" => (~inTx /\ wrec = crec /\ wup = cup)

\* applyAll() has returned after applying every id, one with two statements.
C14_Witness ==
  /\ op = "applyAll"
  /\ res = "ok"
  /\ \A i \in Ids : up[i] # NoFile /\ rec0[i] = NoRec /\ crec[i] # NoRec
  /\ \E i \in Ids : Len(up[i]) > 1

\* Positions in log of a failed begin, statement, insert or commit.
FailedSteps == {j \in 1..Len(log) : ~log[j][4] /\ log[j][1] # "rollback"}

Recorded(r) == {i \in Ids : r[i] # NoRec}

\* The ids of S in descending order.
RECURSIVE Descending(_)
Descending(S) ==
  IF S = {} THEN <<>>
  ELSE LET a == CHOOSE x \in S : \A y \in S : y <= x
       IN <<a>> \o Descending(S \ {a})

\* A commit() that succeeded.
IsCommit(e) == e[1] = "commit" /\ e[4]

\* C17: the migration a rollback step works on is the one with the greatest
\* id that has a record at that moment; the ids reverted so far by the call
\* are the greatest ids recorded when it started, in descending order, and
\* those are the records removed; a rollback(n) that returns has reverted n.
C17_RollbackGreatestFirst ==
  op = "rollback" =>
    LET done == SelectSeq(log, IsCommit)
        desc == Descending(Recorded(rec0))
    IN /\ rpc \in {"rb_exec", "rb_commit", "rb_catch"} =>
            /\ Recorded(crec) # {}
            /\ m.id = Head(Descending(Recorded(crec)))
       /\ Len(done) <= Len(desc)
       /\ \A j \in 1..Len(done) : done[j][2] = desc[j]
       /\ Recorded(crec) = Recorded(rec0) \ {done[j][2] : j \in 1..Len(done)}
       /\ (res = "ok" /\ steps > 0) => Len(done) = steps

\* rollback() has reverted a migration while a migration with a smaller id,
\* whose up-script was committed later, keeps its record.
C17_Witness ==
  /\ op = "rollback"
  /\ res = "ok"
  /\ lastUp # NoId
  /\ crec[lastUp] # NoRec
  /\ \E i \in Ids : i > lastUp /\ rec0[i] # NoRec /\ crec[i] = NoRec

\* The calls that revert migration i: begin(), the statements of the
\* down-script, the delete of the record, commit().
RevertBlock(i) ==
  << <<"begin", i, 0, TRUE>> >>
    \o [k \in 1..Len(down_sql) |-> <<"exec_down", i, down_sql[k], TRUE>>]
    \o << <<"delete", i, 0, TRUE>>, <<"commit", i, 0, TRUE>> >>

\* The blocks of the ids of the sequence q, in its order.
RECURSIVE RevertBlocks(_)
RevertBlocks(q) ==
  IF q = <<>> THEN <<>> ELSE RevertBlock(Head(q)) \o RevertBlocks(Tail(q))

\* C18: a rollback(steps) with steps greater than the number k of recorded
\* migrations never returns normally; when every recorded migration has its
\* pair and down-script on disk and no call on the connection fails, it
\* reverts the k migrations and then throws "nothing to roll back", and the k
\* reverts stay committed; with k = 0 it throws at once and has made no call.
C18_RollbackTooManySteps ==
  (op = "rollback" /\ steps > Cardinality(Recorded(rec0))) =>
    /\ res # "ok"
    /\ res = "nothing" =>
         /\ log = RevertBlocks(Descending(Recorded(rec0)))
         /\ Recorded(crec) = {}
         /\ Recorded(wrec) = {}
    /\ ((\A i \in Recorded(rec0) : up[i] # NoFile /\ down[i]) /\ ~SomeCallFailed)
         => res \in {"running", "nothing"}
    /\ Recorded(rec0) = {} => (log = <<>> /\ res \in {"running", "nothing"})

\* rollback(steps) has reverted every recorded migration and then thrown.
C18_Witness ==
  /\ op = "rollback"
  /\ res = "nothing"
  /\ Recorded(rec0) # {}
  /\ steps > Cardinality(Recorded(rec0))
  /\ Recorded(crec) = {}

\* The reverts the call has committed.
Reverted == SelectSeq(log, IsCommit)

\* C19: a rollback step whose migration (the greatest recorded id) has no
\* down-script on disk, or no up/down pair on disk, throws before begin():
\* the call's log ends with the commit of the previous step, the record of
\* that migration and all other remaining records are untouched, and begin()
\* is only ever called for a migration whose pair and down-script exist.
C19_RollbackNeedsDownScript ==
  op = "rollback" =>
    /\ rpc \in {"rb_exec", "rb_commit", "rb_catch"} => (up[m.id] # NoFile /\ down[m.id])
    /\ res \in {"nodown", "notfound"} =>
         LET g == Head(Descending(Recorded(crec))) IN
           /\ Recorded(crec) # {}
           /\ res = "nodown" => (up[g] # NoFile /\ ~down[g])
           /\ res = "notfound" => up[g] = NoFile
           /\ g \notin Touched
           /\ log = RevertBlocks([j \in 1..Len(Reverted) |-> Reverted[j][2]])
           /\ wrec = crec
           /\ \A i \in Recorded(crec) : crec[i] = rec0[i]
    /\ (rpc = "idle" /\ Recorded(crec) # {} /\ Len(Reverted) < steps /\ ~SomeCallFailed) =>
         LET g == Head(Descending(Recorded(crec))) IN
           /\ (up[g] # NoFile /\ ~down[g]) => res = "nodown"
           /\ up[g] = NoFile => res = "notfound"

\* The second step of a rollback() found a migration without down-script.
C19_Witness ==
  /\ op = "rollback"
  /\ res = "nodown"
  /\ Len(Reverted) > 0

\* C20: a rollback(steps) with steps <= 0 returns at once without error; it
\* makes no call inside a try block (no begin, statement or delete), and
\* besides creating the tracking table it changes nothing in the database or
\* the directory.
C20_RollbackZeroSteps ==
  /\ [][(rpc = "idle" /\ op' = "rollback" /\ steps' <= 0) =>
          /\ rpc' = "idle"
          /\ res' = "ok"
          /\ log' = <<>>
          /\ tableExists'
          /\ UNCHANGED <<dirVars, crec, cup, wrec, wup, inTx>>]_vars
  /\ []((op = "rollback" /\ steps <= 0) =>
          (rpc = "idle" /\ res = "ok" /\ log = <<>> /\ crec = rec0 /\ ~inTx))

\* rollback(-1) has returned with a migration recorded.
C20_Witness ==
  /\ op = "rollback"
  /\ steps < 0
  /\ res = "ok"
  /\ Recorded(crec) # {}

\* C21: after an applyAll() that returned, started on an empty tracking table
\* with a down-script for each of the n pairs, a rollback(n) that returns has
\* reverted the n migrations, greatest id first, and left the table empty (it
\* fails only when a call on the connection fails); a rollback(1) that follows
\* it makes no call and throws "nothing to roll back".
C21_ApplyThenRollbackAll ==
  /\ (trip = 2 /\ op = "rollback") =>
       /\ Recorded(rec0) = {i \in Ids : up[i] # NoFile}
       /\ steps = Cardinality(Recorded(rec0))
       /\ res \in {"running", "ok"} \cup StepErrors
       /\ res \in StepErrors => SomeCallFailed
       /\ res = "ok" =>
            /\ Recorded(crec) = {}
            /\ Recorded(wrec) = {}
            /\ log = RevertBlocks(Descending(Recorded(rec0)))
  /\ trip = 3 =>
       /\ op = "rollback"
       /\ Recorded(crec) = {}
       /\ log = <<>>
       /\ res \in {"running", "nothing"}

\* The rollback(1) that followed applyAll() and rollback(n), with a pair for
\* every id, has thrown.
C21_Witness ==
  /\ trip = 3
  /\ res = "nothing"
  /\ \A i \in Ids : up[i] # NoFile /\ down[i]

\* Ids that have a down file and no up file.
Orphans == {i \in Ids : up[i] = NoFile /\ down[i]}

\* C22: an <id>.down.sql without <id>.up.sql gives no pair; applyAll() makes
\* no call for that id and leaves it without record, and the file causes no
\* error: a drift error comes from a drifted pair, a step error from a failed
\* call, and with no up file in the directory applyAll() returns having made
\* no call.
C22_OrphanDownIgnored ==
  op = "applyAll" =>
    /\ \A i \in Orphans :
         /\ \A j \in 1..Len(pairs) : pairs[j].id # i
         /\ i \notin Touched
         /\ crec[i] = rec0[i]
         /\ wrec[i] = rec0[i]
    /\ res = "drift" => Drifted # {}
    /\ res \in StepErrors => SomeCallFailed
    /\ (\A i \in Ids : up[i] = NoFile) => (res \in {"running", "ok"} /\ log = <<>>)

\* applyAll() has applied a pair and returned while another id has only a
\* down file.
C22_Witness ==
  /\ op = "applyAll"
  /\ res = "ok"
  /\ \E i \in Orphans : rec0[i] = NoRec
  /\ \E j \in Ids : rec0[j] = NoRec /\ crec[j] # NoRec

\* The smallest and the greatest element of a non-empty set of positions.
MinOf(S) == CHOOSE x \in S : \A y \in S : x <= y
MaxOf(S) == CHOOSE x \in S : \A y \in S : y <= x

RECURSIVE Literals(_, _)
\* The quoted literals of text s from position from on, as <<opening quote,
\* closing quote>>: a literal opens at the first quote character met outside
\* a literal and closes at the next occurrence of the same character (past
\* the end of the text when there is none).
Literals(s, from) ==
  LET Q == {k \in from..Len(s) : s[k] \in {"'", "\""}} IN
    IF Q = {} THEN {}
    ELSE LET p == MinOf(Q)
             E == {k \in (p + 1)..Len(s) : s[k] = s[p]}
             e == IF E = {} THEN Len(s) + 1 ELSE MinOf(E)
         IN {<<p, e>>} \cup Literals(s, e + 1)

\* Position k of s lies inside a quoted literal.
InLiteral(s, k) == \E l \in Literals(s, 1) : l[1] < k /\ k < l[2]

\* The statement boundaries of s: the ';' outside quoted literals.
Boundaries(s) == {k \in 1..Len(s) : s[k] = ";" /\ ~InLiteral(s, k)}

\* x without its leading and trailing whitespace.
Strip(x) ==
  LET N == {k \in 1..Len(x) : ~is_ws(x[k])} IN
    IF N = {} THEN <<>> ELSE SubSeq(x, MinOf(N), MaxOf(N))

RECURSIVE StatementsFrom(_, _)
\* The statements of s from position from on, in source order: the stripped
\* text up to each boundary and after the last one, without the empty ones.
StatementsFrom(s, from) ==
  LET B == {b \in Boundaries(s) : b >= from}
      e == IF B = {} THEN Len(s) + 1 ELSE MinOf(B)
      t == Strip(SubSeq(s, from, e - 1))
      rest == IF e > Len(s) THEN <<>> ELSE StatementsFrom(s, e + 1)
  IN IF t = <<>> THEN rest ELSE <<t>> \o rest

\* C23: splitStatements returns, in source order, the text between the ';'
\* that lie outside single- and double-quoted literals and the text after the
\* last of them, each trimmed, the empty ones left out; so every returned
\* statement is non-empty and neither starts nor ends with whitespace.
C23_SplitStatements ==
  returned =>
    /\ out = StatementsFrom(sql, 1)
    /\ \A j \in 1..Len(out) :
         /\ out[j] # <<>>
         /\ ~is_ws(out[j][1])
         /\ ~is_ws(out[j][Len(out[j])])

\* A text with a ';' inside a literal, a ';' outside, and a statement
\* returned for it.
C23_Witness ==
  /\ returned
  /\ \E k \in 1..Len(sql) : sql[k] = ";" /\ InLiteral(sql, k)
  /\ \E k \in 1..Len(sql) : sql[k] = ";" /\ ~InLiteral(sql, k)
  /\ out # <<>>

\* Thread t passes through release() in this step without giving up a
\* connection: the argument was null.
NullReleaseStep(t) ==
  /\ pc[t] = "idle"
  /\ pc'[t] = "notify"
  /\ held' = held
  /\ gconn' = gconn

\* C24: release() called with a null connection leaves the idle queue and
\* total unchanged, in its locked part and in the notify_one that ends it.
C24_ReleaseNullNoop ==
  [][\A t \in Threads :
       (NullReleaseStep(t) \/ (pc[t] = "notify" /\ pc'[t] = "idle"))
          => (idle' = idle /\ total' = total)]_vars

\* A release(null) has returned while the pool holds idle and borrowed
\* connections.
C24_Witness ==
  /\ hist.who # NoThread
  /\ Len(hist.calls) >= 2
  /\ hist.calls[Len(hist.calls)] = <<"release", "raw", Null>>
  /\ pc[hist.who] = "idle"
  /\ idle # <<>>
  /\ total >= 1

\* The connections the factory has returned so far.
Created == 1..nextId

\* Connection c is in the idle queue or in the hands of a caller.
Kept(c) == InIdle(c) # {} \/ \E t \in Threads : Holds(t, c)

\* C25: total never decreases, and every connection the factory has returned
\* is at every instant in the idle queue or borrowed by a caller.
C25_NothingDropped ==
  /\ [](\A c \in Created : Kept(c))
  /\ [][total' >= total]_vars

\* Two connections exist, one queued again after a release() and one still
\* borrowed.
C25_Witness ==
  /\ nextId >= 2
  /\ idle # <<>>
  /\ \E t \in Threads : held[t] # {}
  /\ \E k \in 1..Len(hist.calls) :
       hist.calls[k][1] = "release" /\ InIdle(hist.calls[k][3]) # {}

\* C26: a call of applyAll() that meets checksum drift ends with a
\* MigrationDriftError, and a call of rollback() that finds no applied
\* migration, no pair on disk or no down-script ends with a
\* MigrationStateError.
C26_ErrorKinds ==
  /\ res = "drift" => ExceptionClass(res) = "MigrationDriftError"
  /\ res \in {"nothing", "notfound", "nodown"} =>
       ExceptionClass(res) = "MigrationStateError"

\* C27: driven by the same construct / commit() / rollback() / destroy calls,
\* a UnitOfWork makes the same acquire, begin(), commit(), rollback() and
\* release calls, in the same order, as a bare Transaction, and exists
\* exactly when the Transaction does.
C27_UnitOfWorkIsTransaction ==
  /\ uow.tx_.calls = bare.calls
  /\ uow.tx_.st = bare.st

\* Both objects were committed, rolled back and destroyed.
C27_Witness ==
  /\ bare.st = "destroyed"
  /\ \E k \in 1..Len(bare.calls) : bare.calls[k][1] = "commit"
  /\ \E k \in 1..Len(bare.calls) : bare.calls[k][1] = "rollback"
  /\ Len(uow.tx_.calls) >= 5

\* The digest of the empty input.
EmptyDigest ==
  <<
     "e", "3", "b", "0", "c", "4", "4", "2", "9", "8", "f", "c", "1", "c", "1", "4",
     "9", "a", "f", "b", "f", "4", "c", "8", "9", "9", "6", "f", "b", "9", "2", "4",
     "2", "7", "a", "e", "4", "1", "e", "4", "6", "4", "9", "b", "9", "3", "4", "c",
     "a", "4", "9", "5", "9", "9", "1", "b", "7", "8", "5", "2", "b", "8", "5", "5"
  >>

\* C28: two sha256_hex calls on the same bytes, each with a hasher of its
\* own, return the same string of 64 characters out of 0-9, a-f, and for the
\* empty input the string is e3b0c442...7852b855.
C28_Sha256Hex ==
  (shaPc = "done" /\ Len(hexes) = 2) =>
    /\ hexes[1] = hexes[2]
    /\ Len(hexes[1]) = 64
    /\ \A j \in 1..64 : \E k \in 1..16 : hexes[1][j] = H[k]
    /\ data = <<>> => hexes[1] = EmptyDigest

\* The empty input has been hashed twice.
C28_Witness ==
  /\ shaPc = "done"
  /\ Len(hexes) = 2
  /\ data = <<>>
  /\ hexes[2] = EmptyDigest

\* Every borrower eventually gives back what it holds.
BorrowersRelease ==
  \A u \in Threads :
    (held[u] # {} \/ gconn[u] # Null) ~> (held[u] = {} /\ gconn[u] = Null)

\* C29: when every borrower eventually releases its connection, a thread
\* blocked in acquire() eventually returns with a connection.
C29_NoLostWakeup ==
  BorrowersRelease => \A t \in Threads : (pc[t] = "wait") ~> (pc[t] = "idle")

\* Thread t is at a call of the factory: in acquire() after ++total_, or in
\* an iteration of warmup()'s loop.
AtFactory(t) == pc[t] = "factory" \/ (pc[t] = "warmup" /\ wi[t] < cfg.min)

\* C30: no thread is at a call of the factory while it holds the pool mutex.
C30_FactoryOutsideLock == \A t \in Threads : AtFactory(t) => m_ # t

\* The calls l made on a Transaction's connection have dealt with the
\* transaction that begin() opened: a commit() or rollback() succeeded, or the
\* last call is a rollback().
BoundaryHandled(l) ==
  /\ Len(l) >= 2
  /\ \/ \E k \in 2..Len(l) : l[k][1] \in {"commit", "rollback"} /\ l[k][2]
     \/ l[Len(l)][1] = "rollback"

\* C31: the connection of a Transaction is not in the idle queue while the
\* Transaction is alive, nor when its destructor has come to the release;
\* and at that point the transaction has been committed or rolled back, or
\* the destructor's rollback attempt has been made.
C31_ReleaseAfterBoundary ==
  \A t \in Threads :
    /\ txst[t] = "alive" => (gconn[t] # Null /\ InIdle(gconn[t]) = {})
    /\ (pc[t] = "txrelease" /\ txst[t] = "destroyed") =>
         /\ gconn[t] # Null
         /\ InIdle(gconn[t]) = {}
         /\ BoundaryHandled(txLog[t])

\* A Transaction destroyed with no commit() or rollback() is about to give
\* its connection back, after the destructor's rollback attempt failed.
C31_Witness ==
  \E t \in Threads :
    /\ pc[t] = "txrelease"
    /\ txst[t] = "destroyed"
    /\ txLog[t] = << <<"begin", TRUE>>, <<"rollback", FALSE>> >>

\* Runner r is inside the try block of applyAll for migration id.
Applying(r, id) == runner[r].pc \in {"exec", "commit", "catch"} /\ runner[r].m.id = id

\* C32: nothing in the runner serialises two runners: a runner whose loop is
\* at a pair without committed record can begin applying it and run its
\* statements, whatever the other runner is doing, also while the other
\* runner is applying the same migration.
C32_RunnersNotSerialised ==
  \A r \in Runners :
    /\ (/\ runner[r].pc = "loop"
        /\ runner[r].ri <= Len(runner[r].pairs)
        /\ shared.rec[AtPair(r).id] = NoRec) => ENABLED RunBegin(r, TRUE)
    /\ (/\ runner[r].pc = "exec"
        /\ runner[r].rk <= Len(shared.dir[runner[r].m.id])) => ENABLED RunExec(r, TRUE)

\* Both runners found the same migration not applied and both have executed
\* every statement of its up-script.
C32_Witness ==
  \E id \in Ids :
    /\ shared.rec[id] = NoRec
    /\ \A r \in Runners :
         /\ Applying(r, id)
         /\ shared.ran[r][id] = Len(shared.dir[id])
         /\ shared.ran[r][id] >= 1

\* Connection c is in one place only: in the idle queue once, or with one
\* borrower, which has it either directly or in its guard.
Exclusive(c) ==
  /\ Cardinality({t \in Threads : Holds(t, c)}) + Cardinality(InIdle(c)) <= 1
  /\ \A t \in Threads : ~(c \in held[t] /\ gconn[t] = c)

\* C33: no connection is held by two callers, or is both idle and borrowed,
\* or is queued twice; and a woken waiter that finds the idle queue empty
\* goes back to waiting without taking anything.
C33_ExclusiveCheckout ==
  /\ [](\A c \in 1..nextId : Exclusive(c))
  /\ [][\A t \in Threads :
          (pc[t] = "woken" /\ idle = <<>> /\ pc'[t] # "woken") =>
            /\ pc'[t] = "wait"
            /\ held'[t] = held[t]
            /\ gconn'[t] = gconn[t]
            /\ idle' = <<>>]_vars

\* A waiter has been woken and the queue is empty again: the pool is at its
\* maximum and another thread, in no pool call, has the connection.
C33_Witness ==
  \E t \in Threads, u \in Threads :
    /\ t # u
    /\ pc[t] = "woken"
    /\ idle = <<>>
    /\ total = cfg.max
    /\ pc[u] = "idle"
    /\ \E c \in 1..nextId : Holds(u, c)

\* The calls l made on a connection leave no transaction open: begin()
\* failed, or a later commit() or rollback() succeeded.
Settled(l) ==
  l[1][2] => \E k \in 2..Len(l) : l[k][1] \in {"commit", "rollback"} /\ l[k][2]

\* C34: when the connection of a Transaction is put into the idle queue, the
\* transaction its begin() opened has been ended by a successful commit() or
\* a successful rollback().
C34_IdleHasNoOpenTx ==
  [][\A t \in Threads :
       (/\ txLog[t] # <<>>
        /\ gconn[t] # Null
        /\ InIdle(gconn[t]) = {}
        /\ \E i \in 1..Len(idle') : idle'[i] = gconn[t]) => Settled(txLog[t])]_vars

\* C35: when begin() throws in the Transaction constructor, no Transaction
\* exists, the only call made on the connection is the failed begin(), the
\* connection is still borrowed and not idle, and the next thing that happens
\* to it is that it is appended to the idle queue, once.
C35_BeginFailureReleases ==
  /\ [](\A t \in Threads :
          txst[t] = "ctor_failed" =>
            /\ pc[t] = "txrelease"
            /\ txLog[t] = << <<"begin", FALSE>> >>
            /\ ~active[t]
            /\ gconn[t] # Null
            /\ InIdle(gconn[t]) = {})
  /\ [][\A t \in Threads :
          (txst[t] = "ctor_failed" /\ <<txst[t], gconn[t], txLog[t]>>' # <<txst[t], gconn[t], txLog[t]>>) =>
            /\ idle' = Append(idle, gconn[t])
            /\ gconn'[t] = Null
            /\ txst'[t] = "none"]_vars

\* begin() has thrown in a constructor and the connection is about to be
\* given back.
C35_Witness ==
  \E t \in Threads :
    /\ txst[t] = "ctor_failed"
    /\ pc[t] = "txrelease"
    /\ gconn[t] # Null
    /\ txLog[t] = << <<"begin", FALSE>> >>

\* The j-th call of the log ends a transaction: commit() or rollback().
Boundary(j) == log[j][1] \in {"commit", "rollback"}

\* The j-th call of the log is a commit() that succeeded.
Committed(j) == log[j][1] = "commit" /\ log[j][4]

C37_DriftLeavesTableUntouched ==
  (op = "applyAll" /\ res = "drift") =>
    /\ crec = rec0
    /\ log = <<>>

\* C38: when applyAll() has returned, every id with an up-script in the
\* directory has a committed tracking record, and the checksum in the record
\* is the checksum of the up-script now on disk.
C38_AppliedMatchesDisk ==
  (op = "applyAll" /\ res = "ok") =>
    \A i \in Ids :
      up[i] # NoFile =>
        /\ crec[i] # NoRec
        /\ crec[i] = up_checksum(up[i])
        /\ wrec[i] = crec[i]

\* applyAll() has returned after skipping a recorded pair and applying a
\* pending one.
C38_Witness ==
  /\ op = "applyAll"
  /\ res = "ok"
  /\ \E i, j \in Ids :
       /\ up[i] # NoFile /\ rec0[i] # NoRec
       /\ up[j] # NoFile /\ rec0[j] = NoRec /\ crec[j] = up_checksum(up[j])

\* The call has made call kind for id, and it succeeded.
Did(kind, id) == \E j \in 1..Len(log) : log[j][1] = kind /\ log[j][2] = id /\ log[j][4]

\* C39: during and after applyAll(), a record that existed when the call
\* started is unchanged, and a record that did not is absent or the one the
\* call inserted; during and after rollback(), a record is the one that
\* existed when the call started or has been deleted by the call, after the
\* down-script of that id ran; this holds in the committed table and in what
\* the connection sees, whatever the outcome.
C39_OnlyAddsOnlyRemoves ==
  /\ op = "applyAll" =>
       \A i \in Ids :
         /\ rec0[i] # NoRec => (crec[i] = rec0[i] /\ wrec[i] = rec0[i])
         /\ wrec[i] # rec0[i] => (wrec[i] = up_checksum(up[i]) /\ Did("insert", i))
         /\ crec[i] # rec0[i] => (crec[i] = wrec[i] /\ Did("commit", i))
  /\ op = "rollback" =>
       \A i \in Ids :
         /\ crec[i] \in {rec0[i], NoRec}
         /\ wrec[i] \in {rec0[i], NoRec}
         /\ wrec[i] # rec0[i] => (Did("exec_down", i) /\ Did("delete", i))
         /\ crec[i] # rec0[i] => (wrec[i] = NoRec /\ Did("commit", i))

\* A rollback() reverted one migration and failed in the next step: the
\* record of the first is gone and the other record is as it was.
C39_Witness ==
  /\ op = "rollback"
  /\ rpc = "idle"
  /\ res \in StepErrors
  /\ \E i, j \in Ids :
       /\ rec0[i] # NoRec /\ crec[i] = NoRec
       /\ rec0[j] # NoRec /\ crec[j] = rec0[j]

====
